---- MODULE Spec2Model ----
(***************************************************************************)
(* Query-fingerprint cache of the recipe backend: the recipe_cache table,  *)
(* RecipeCacheModel.save / get / generateCacheKey, Database.cleanupCache   *)
(* and the two cached request handlers of RecipeService.                   *)
(***************************************************************************)
EXTENDS Integers, Sequences, FiniteSets, TLC

(* ------------------------------ bounds --------------------------------- *)
\* the clock advances in steps of ClockStep hours, up to MaxTime hours
ClockStep == 12
MaxTime == 24
\* gets on one entry are modelled until its hit_count reaches MaxHits
MaxHits == 3
\* configured capacities explored: 1..MaxCapacity
MaxCapacity == 2
\* serving sizes explored: up to MaxServings, and its double
MaxServings == 4
\* scalings of one stored recipe are modelled until its popularity is MaxPopularity
MaxPopularity == 2

(* --------------------------- timestamps -------------------------------- *)
HoursPerDay == 24
\* character codes of the separator between date and time of day
SPACE == 32
TEE == 84

\* SQLite CURRENT_TIMESTAMP: the text "YYYY-MM-DD HH:MM:SS" (UTC)
CURRENT_TIMESTAMP(t) == <<t \div HoursPerDay, SPACE, t % HoursPerDay>>

\* Date.prototype.toISOString: the text "YYYY-MM-DDTHH:MM:SS.sssZ"
toISOString(t) == <<t \div HoursPerDay, TEE, t % HoursPerDay>>

\* the instant a timestamp text denotes
InstantOf(ts) == ts[1] * HoursPerDay + ts[3]

\* SQLite's comparison of two TEXT values (BINARY collation: memcmp);
\* the fixed-width date and time fields compare as their numbers do
TextLess(a, b) ==
    \/ a[1] < b[1]
    \/ a[1] = b[1] /\ a[2] < b[2]
    \/ a[1] = b[1] /\ a[2] = b[2] /\ a[3] < b[3]

(* ----------------------------- payloads -------------------------------- *)
\* null, and a non-null value v, as returned by a lookup
Null == <<>>

\* JSON.stringify of a Recipe: a text in which the Date fields are ISO strings
JSONStringify(recipe) ==
    <<"json", [recipe EXCEPT !.createdAt = "string", !.updatedAt = "string"]>>

\* JSON.parse: the object the text denotes
JSONParse(text) == text[2]

\* RecipeSuggestion values the generation collaborator may return
Suggestions ==
    { [kind |-> "suggestion", name |-> n, instructions |-> "steps", confidence |-> "0.9"]
        : n \in {"omelette", "pancake"} }

\* RecipeVariation values the generation collaborator may return
Variations ==
    { [kind |-> "variation", name |-> n, instructions |-> "steps", variation |-> "classic"]
        : n \in {"margherita"} }

convertSuggestionToRecipe(suggestion) ==
    [name |-> suggestion.name, instructions |-> "empty", servingSize |-> 4,
     tags |-> "tags", createdAt |-> "Date", updatedAt |-> "Date"]

convertVariationToRecipe(variation) ==
    [name |-> variation.name, instructions |-> variation.instructions, servingSize |-> 4,
     tags |-> "tags", createdAt |-> "Date", updatedAt |-> "Date"]

convertRecipeToSuggestion(recipe) ==
    [kind |-> "suggestion", name |-> recipe.name, instructions |-> recipe.instructions,
     confidence |-> "0.8"]

convertRecipeToVariation(recipe) ==
    [kind |-> "variation", name |-> recipe.name, instructions |-> recipe.instructions,
     variation |-> "Cached version"]

\* Recipe objects handed to RecipeCacheModel.save
Recipes ==
    {convertSuggestionToRecipe(s) : s \in Suggestions}
        \cup {convertVariationToRecipe(v) : v \in Variations}

(* --------------------------- fingerprints ------------------------------ *)
Undefined == <<"undefined">>

\* JSON.stringify of an object literal: the members in the order written,
\* members whose value is undefined left out
stringifyObject(members) == SelectSeq(members, LAMBDA kv : kv[2] # Undefined)

\* crypto md5 digest, taken as injective on its input
md5(data) == <<"md5", data>>

\* a type argument that is not passed (undefined)
MissingType == "undefined"

\* RecipeCacheModel.generateCacheKey
generateCacheKey(type, input, restrictions) ==
    md5(stringifyObject(<< <<"type", IF type = MissingType THEN Undefined ELSE <<"s", type>> >>,
                           <<"input", input>>,
                           <<"restrictions", <<"a">> \o restrictions>> >>))

\* the input object literal without the cuisine preference
ingredientsInput_noCuisine(ingredients, cuisinePreference, servingSize) ==
    stringifyObject(<< <<"ingredients", <<"a">> \o ingredients>>,
                       <<"servingSize", <<"n", servingSize>> >> >>)

\* the input object literal of getRecipesByIngredients
ingredientsInput(ingredients, cuisinePreference, servingSize) ==
    stringifyObject(<< <<"ingredients", <<"a">> \o ingredients>>,
                       <<"cuisinePreference", cuisinePreference>>,
                       <<"servingSize", <<"n", servingSize>> >> >>)

\* the input object literal of getRecipeVariationsByName
foodNameInput(foodName, servingSize) ==
    stringifyObject(<< <<"foodName", <<"s", foodName>> >>,
                       <<"servingSize", <<"n", servingSize>> >> >>)

\* stored dietary profiles (dietary_profiles table), by user id
NoUser == "undefined"
DietaryProfiles ==
    [u \in {"u1", "u2"} |->
        [allergies |-> IF u = "u1" THEN <<"nuts", "dairy">> ELSE <<"dairy", "nuts">>,
         dietaryPreferences |-> <<"vegan">>,
         healthConditions |-> <<"low_sodium">>]]

\* DietaryProfileModel.getAllRestrictions
getAllRestrictions(userId) ==
    IF userId \notin DOMAIN DietaryProfiles THEN <<>>
    ELSE DietaryProfiles[userId].allergies \o DietaryProfiles[userId].dietaryPreferences
            \o DietaryProfiles[userId].healthConditions

\* [...new Set(list)]: first occurrences, in order
RECURSIVE uniqueInOrder(_)
uniqueInOrder(list) ==
    IF list = <<>> THEN <<>>
    ELSE LET init == uniqueInOrder(SubSeq(list, 1, Len(list) - 1))
             x == list[Len(list)]
         IN IF \E i \in DOMAIN init : init[i] = x THEN init ELSE Append(init, x)

\* the two lists joined without removing duplicates
aggregateRestrictions_concat(dietaryRestrictions, userId) ==
    IF userId # NoUser
    THEN dietaryRestrictions \o getAllRestrictions(userId)
    ELSE dietaryRestrictions

\* the restriction list a handler fingerprints and passes to the generator
aggregateRestrictions(dietaryRestrictions, userId) ==
    IF userId # NoUser
    THEN uniqueInOrder(dietaryRestrictions \o getAllRestrictions(userId))
    ELSE dietaryRestrictions

\* requests sent to the two cached handlers
Requests ==
    { [type |-> "ingredients", ingredients |-> <<"egg">>, cuisinePreference |-> Undefined,
       servingSize |-> "4", dietaryRestrictions |-> r, userId |-> NoUser]
        : r \in { <<"vegan", "gluten-free">>, <<"gluten-free", "vegan">> } }
    \cup
    { [type |-> "foodName", foodName |-> "pizza", servingSize |-> "4",
       dietaryRestrictions |-> <<>>, userId |-> NoUser] }

\* the cache key a handler computes for a request
cacheKeyOf(req) ==
    IF req.type = "ingredients"
    THEN generateCacheKey("ingredients",
            ingredientsInput(req.ingredients, req.cuisinePreference, req.servingSize),
            aggregateRestrictions(req.dietaryRestrictions, req.userId))
    ELSE generateCacheKey("foodName",
            foodNameInput(req.foodName, req.servingSize),
            aggregateRestrictions(req.dietaryRestrictions, req.userId))

\* the first statements of a cached handler: the restrictions it aggregates
\* and the cache key it computes; a failed profile lookup throws, and the
\* handler's catch turns that into SERVICE_ERROR
prepare(req, profileOk) ==
    IF req.userId # NoUser /\ ~profileOk
    THEN [error |-> "SERVICE_ERROR", restrictions |-> <<>>, cacheKey |-> Null]
    ELSE [error |-> "none",
          restrictions |-> aggregateRestrictions(req.dietaryRestrictions, req.userId),
          cacheKey |-> cacheKeyOf(req)]

\* requests that differ in one or more fingerprinted fields
FieldRequests ==
    { [type |-> "ingredients", ingredients |-> i, cuisinePreference |-> c,
       servingSize |-> n, dietaryRestrictions |-> r, userId |-> NoUser]
        : i \in { <<"egg">>, <<"egg", "milk">> }, c \in { Undefined, <<"s", "thai">> },
          n \in {"2", "4"}, r \in { <<>>, <<"vegan">> } }
    \cup
    { [type |-> "foodName", foodName |-> f, servingSize |-> n,
       dietaryRestrictions |-> r, userId |-> NoUser]
        : f \in {"pizza", "egg"}, n \in {"2", "4"}, r \in { <<>>, <<"vegan">> } }

\* requests that differ in the restriction list and in the user
UserRequests ==
    { [type |-> "ingredients", ingredients |-> <<"egg">>, cuisinePreference |-> Undefined,
       servingSize |-> "4", dietaryRestrictions |-> r, userId |-> u]
        : r \in { <<>>, <<"vegan">>, <<"vegan", "gluten">>, <<"gluten", "vegan">>,
                  <<"vegan", "vegan">> },
          u \in {NoUser, "u1", "u2", "ghost"} }

\* the cache key of every request of Requests
CacheKeys == [req \in Requests |-> cacheKeyOf(req)]

Fingerprints == {CacheKeys[req] : req \in Requests}

(* ------------------------------ numbers -------------------------------- *)
\* a JavaScript number: a finite value in thousandths, an infinity with its
\* sign, or NaN
Finite(n) == <<"finite", n>>
Infinity(sign) == <<"Infinity", sign>>
NaN == <<"NaN", 0>>

Sign(x) == IF x > 0 THEN 1 ELSE IF x < 0 THEN -1 ELSE 0

Abs(x) == IF x < 0 THEN -x ELSE x

\* amount * (newServings / originalServings): the exact fraction p / q of a
\* thousandth (q > 0), or the infinity or NaN that a division by 0 gives
times(amount, originalServings, newServings) ==
    IF amount[1] = "NaN" \/ (originalServings = 0 /\ newServings = 0)
    THEN [tag |-> "NaN", p |-> 0, q |-> 1]
    ELSE IF originalServings = 0
    THEN IF amount[2] = 0 THEN [tag |-> "NaN", p |-> 0, q |-> 1]
         ELSE [tag |-> "Infinity", p |-> Sign(amount[2]) * Sign(newServings), q |-> 1]
    ELSE IF amount[1] = "Infinity"
    THEN IF newServings = 0 THEN [tag |-> "NaN", p |-> 0, q |-> 1]
         ELSE [tag |-> "Infinity",
               p |-> amount[2] * Sign(newServings) * Sign(originalServings), q |-> 1]
    ELSE [tag |-> "finite", p |-> amount[2] * newServings * Sign(originalServings),
          q |-> Abs(originalServings)]

\* x < c, for c in thousandths (false for NaN)
LessThan(x, c) ==
    CASE x.tag = "finite" -> x.p < c * x.q
      [] x.tag = "Infinity" -> x.p < 0
      [] OTHER -> FALSE

\* Math.round(x * k) / k: the multiple of 1/k nearest to x, halves towards
\* plus infinity; infinities and NaN pass through
MathRound(x, k) ==
    LET step == 1000 \div k
    IN IF x.tag = "finite"
       THEN Finite(step * ((2 * x.p + step * x.q) \div (2 * step * x.q)))
       ELSE <<x.tag, x.p>>

\* Math.pow(10, decimals)
pow10(decimals) == IF decimals = 0 THEN 1 ELSE IF decimals = 1 THEN 10
                   ELSE IF decimals = 2 THEN 100 ELSE 1000

(* ----------------------------- ScalingUtils ---------------------------- *)
\* ScalingUtils.roundToDecimal
roundToDecimal(num, decimals) == MathRound(num, pow10(decimals))

\* String.prototype.toLowerCase on the unit names used here
toLowerCase(unit) ==
    CASE unit = "Cup" -> "cup"
      [] unit = "TBSP" -> "tbsp"
      [] OTHER -> unit

\* the unit classes consulted before, and so instead of, the small-amount rule
roundToReasonablePrecision_unitFirst(amount, unit) ==
    LET unitLower == toLowerCase(unit)
    IN IF unitLower \in {"tsp", "teaspoon", "pinch", "dash"} THEN MathRound(amount, 4)
       ELSE IF unitLower \in {"tbsp", "tablespoon"} THEN MathRound(amount, 2)
       ELSE IF unitLower \in {"cup", "cups", "l", "liter", "litre"} THEN MathRound(amount, 4)
       ELSE IF unitLower \in {"g", "gram", "grams"}
            THEN IF LessThan(amount, 10000) THEN roundToDecimal(amount, 1)
                 ELSE MathRound(amount, 1)
       ELSE IF unitLower \in {"kg", "kilogram", "kilograms"} THEN roundToDecimal(amount, 2)
       ELSE IF unitLower \in {"oz", "ounce", "ounces"} THEN roundToDecimal(amount, 1)
       ELSE IF unitLower \in {"lb", "pound", "pounds"} THEN roundToDecimal(amount, 2)
       ELSE IF unitLower \in {"piece", "pieces", "item", "items", "whole", "each", ""}
            THEN MathRound(amount, 1)
       ELSE IF LessThan(amount, 100) THEN roundToDecimal(amount, 3)
       ELSE roundToDecimal(amount, 1)

\* the tsp class rounded to whole spoons
roundToReasonablePrecision_wholeSpoons(amount, unit) ==
    LET unitLower == toLowerCase(unit)
    IN IF LessThan(amount, 100) THEN roundToDecimal(amount, 3)
       ELSE IF unitLower \in {"tsp", "teaspoon", "pinch", "dash"} THEN MathRound(amount, 1)
       ELSE IF unitLower \in {"tbsp", "tablespoon"} THEN MathRound(amount, 2)
       ELSE IF unitLower \in {"cup", "cups", "l", "liter", "litre"} THEN MathRound(amount, 4)
       ELSE IF unitLower \in {"g", "gram", "grams"}
            THEN IF LessThan(amount, 10000) THEN roundToDecimal(amount, 1)
                 ELSE MathRound(amount, 1)
       ELSE IF unitLower \in {"kg", "kilogram", "kilograms"} THEN roundToDecimal(amount, 2)
       ELSE IF unitLower \in {"oz", "ounce", "ounces"} THEN roundToDecimal(amount, 1)
       ELSE IF unitLower \in {"lb", "pound", "pounds"} THEN roundToDecimal(amount, 2)
       ELSE IF unitLower \in {"piece", "pieces", "item", "items", "whole", "each", ""}
            THEN MathRound(amount, 1)
       ELSE roundToDecimal(amount, 1)

\* ScalingUtils.roundToReasonablePrecision
roundToReasonablePrecision(amount, unit) ==
    LET unitLower == toLowerCase(unit)
    IN IF LessThan(amount, 100) THEN roundToDecimal(amount, 3)
       ELSE IF unitLower \in {"tsp", "teaspoon", "pinch", "dash"} THEN MathRound(amount, 4)
       ELSE IF unitLower \in {"tbsp", "tablespoon"} THEN MathRound(amount, 2)
       ELSE IF unitLower \in {"cup", "cups", "l", "liter", "litre"} THEN MathRound(amount, 4)
       ELSE IF unitLower \in {"g", "gram", "grams"}
            THEN IF LessThan(amount, 10000) THEN roundToDecimal(amount, 1)
                 ELSE MathRound(amount, 1)
       ELSE IF unitLower \in {"kg", "kilogram", "kilograms"} THEN roundToDecimal(amount, 2)
       ELSE IF unitLower \in {"oz", "ounce", "ounces"} THEN roundToDecimal(amount, 1)
       ELSE IF unitLower \in {"lb", "pound", "pounds"} THEN roundToDecimal(amount, 2)
       ELSE IF unitLower \in {"piece", "pieces", "item", "items", "whole", "each", ""}
            THEN MathRound(amount, 1)
       ELSE roundToDecimal(amount, 1)

\* the amounts assigned to the ingredients of the argument list itself
ScalingUtils_scaleIngredients_inPlace(ingredients, originalServings, newServings) ==
    LET scaled == [i \in DOMAIN ingredients |->
                    [ingredients[i] EXCEPT !.amount =
                        roundToReasonablePrecision(times(@, originalServings, newServings),
                                                   ingredients[i].unit)]]
    IN [ingredients |-> scaled, result |-> scaled]

\* ScalingUtils.scaleIngredients: the argument list as the call leaves it,
\* and the list returned
ScalingUtils_scaleIngredients(ingredients, originalServings, newServings) ==
    [ingredients |-> ingredients,
     result |-> [i \in DOMAIN ingredients |->
                    [ingredients[i] EXCEPT !.amount =
                        roundToReasonablePrecision(times(@, originalServings, newServings),
                                                   ingredients[i].unit)]]]

\* ScalingUtils.scaleNutrientObject (every value of the map is a number)
scaleNutrientObject(nutrients, originalServings, newServings) ==
    [key \in DOMAIN nutrients |->
        roundToDecimal(times(nutrients[key], originalServings, newServings), 1)]

\* protein rounded to a whole number
ScalingUtils_scaleNutrition_wholeProtein(nutrition, originalServings, newServings) ==
    LET scaled(field) == times(field, originalServings, newServings)
    IN [calories |-> MathRound(scaled(nutrition.calories), 1),
        protein |-> MathRound(scaled(nutrition.protein), 1),
        carbohydrates |-> roundToDecimal(scaled(nutrition.carbohydrates), 1),
        fat |-> roundToDecimal(scaled(nutrition.fat), 1),
        fiber |-> roundToDecimal(scaled(nutrition.fiber), 1),
        sugar |-> roundToDecimal(scaled(nutrition.sugar), 1),
        sodium |-> roundToDecimal(scaled(nutrition.sodium), 1),
        vitamins |-> scaleNutrientObject(nutrition.vitamins, originalServings, newServings),
        minerals |-> scaleNutrientObject(nutrition.minerals, originalServings, newServings),
        servingSize |-> newServings]

\* ScalingUtils.scaleNutrition
ScalingUtils_scaleNutrition(nutrition, originalServings, newServings) ==
    LET scaled(field) == times(field, originalServings, newServings)
    IN [calories |-> MathRound(scaled(nutrition.calories), 1),
        protein |-> roundToDecimal(scaled(nutrition.protein), 1),
        carbohydrates |-> roundToDecimal(scaled(nutrition.carbohydrates), 1),
        fat |-> roundToDecimal(scaled(nutrition.fat), 1),
        fiber |-> roundToDecimal(scaled(nutrition.fiber), 1),
        sugar |-> roundToDecimal(scaled(nutrition.sugar), 1),
        sodium |-> roundToDecimal(scaled(nutrition.sodium), 1),
        vitamins |-> scaleNutrientObject(nutrition.vitamins, originalServings, newServings),
        minerals |-> scaleNutrientObject(nutrition.minerals, originalServings, newServings),
        servingSize |-> newServings]

\* newServings / originalServings, as a fraction of a thousandth
scaleFactor(originalServings, newServings) ==
    times(Finite(1000), originalServings, newServings)

\* x <= c, for c in thousandths (false for NaN)
AtMost(x, c) ==
    CASE x.tag = "finite" -> x.p <= c * x.q
      [] x.tag = "Infinity" -> x.p < 0
      [] OTHER -> FALSE

\* x > c, for c in thousandths (false for NaN)
MoreThan(x, c) ==
    CASE x.tag = "finite" -> x.p > c * x.q
      [] x.tag = "Infinity" -> x.p > 0
      [] OTHER -> FALSE

\* the natural logarithms of 1 .. 24 in units of 1/100000, rounded down
LnTable ==
    << 0, 69314, 109861, 138629, 160943, 179175, 194591, 207944, 219722, 230258,
       239789, 248490, 256494, 263905, 270805, 277258, 283321, 289037, 294443,
       299573, 304452, 309104, 313549, 317805 >>

\* Math.log of a quotient of whole servings above 1, in units of 1/100000
MathLog(x) == LnTable[x.p \div 1000] - LnTable[x.q]

\* originalTime * x for an infinite or NaN x: the infinity of the product's
\* sign, NaN when the time is 0
timesInfinity(originalTime, x) ==
    IF x.tag = "NaN" \/ originalTime[2] = 0 THEN NaN
    ELSE Infinity(Sign(originalTime[2]) * x.p)

\* 0.7 and 0.3 are not doubles, so a product originalTime * (0.7 + 0.3 *
\* scaleFactor) whose exact value is a half can come out just below it. These
\* are the ones that do, among whole minutes 0, 1, 30, 45 and quotients of
\* servings in -2 .. 12: <<minutes, scale factor numerator, denominator>>
BelowHalf ==
    { <<30, -7, 2>>, <<30, -5, 2>>, <<30, -1, 2>>, <<30, -1, 6>>,
      <<45, -2, 1>>, <<45, 0, 1>>, <<45, 2, 3>>, <<45, 8, 9>> }

\* Math.round of the double product: of the exact product, or one less
roundProduct(minutes, sf, exact) ==
    LET rounded == MathRound(exact, 1)
    IN IF \E e \in BelowHalf : e[1] = minutes /\ e[2] * 1000 * sf.q = e[3] * sf.p
       THEN Finite(rounded[2] - 1000)
       ELSE rounded

\* time proportional to the servings
scaleCookingTime_proportional(originalTime, originalServings, newServings) ==
    MathRound(times(originalTime, originalServings, newServings), 1)

\* ScalingUtils.scaleCookingTime, of a time in whole minutes
scaleCookingTime(originalTime, originalServings, newServings) ==
    LET sf == scaleFactor(originalServings, newServings)
        minutes == originalTime[2] \div 1000
    IN IF AtMost(sf, 1000)
       THEN IF sf.tag = "finite"
            THEN roundProduct(minutes, sf,
                     [tag |-> "finite",
                      p |-> 100 * minutes * (7 * sf.q + 3 * (sf.p \div 1000)),
                      q |-> sf.q])
            ELSE timesInfinity(originalTime, sf)
       ELSE IF sf.tag = "finite"
            THEN MathRound([tag |-> "finite",
                            p |-> minutes * (1000000 + 3 * MathLog(sf)),
                            q |-> 1000], 1)
            ELSE timesInfinity(originalTime, sf)

\* the greater difficulty for every changed serving size
scaleDifficulty_anyChange(originalDifficulty, originalServings, newServings) ==
    LET sf == scaleFactor(originalServings, newServings)
    IN IF LessThan(sf, 1000) \/ MoreThan(sf, 1000)
       THEN IF 5 < originalDifficulty + 1 THEN 5 ELSE originalDifficulty + 1
       ELSE originalDifficulty

\* ScalingUtils.scaleDifficulty
scaleDifficulty(originalDifficulty, originalServings, newServings) ==
    LET sf == scaleFactor(originalServings, newServings)
    IN IF LessThan(sf, 500)
       THEN IF 5 < originalDifficulty + 1 THEN 5 ELSE originalDifficulty + 1
       ELSE IF MoreThan(sf, 3000)
       THEN IF 5 < originalDifficulty + 1 THEN 5 ELSE originalDifficulty + 1
       ELSE originalDifficulty

\* the conversions table of convertUnit, a factor f as <<n, d>> with f = n / d
conversions ==
    [ml |-> [ml |-> <<1, 1>>, l |-> <<1, 1000>>, cup |-> <<422675, 100000000>>,
             tbsp |-> <<67628, 1000000>>, tsp |-> <<202884, 1000000>>],
     l |-> [ml |-> <<1000, 1>>, l |-> <<1, 1>>, cup |-> <<422675, 100000>>,
            tbsp |-> <<67628, 1000>>, tsp |-> <<202884, 1000>>],
     cup |-> [ml |-> <<236588, 1000>>, l |-> <<236588, 1000000>>, cup |-> <<1, 1>>,
              tbsp |-> <<16, 1>>, tsp |-> <<48, 1>>],
     tbsp |-> [ml |-> <<147868, 10000>>, l |-> <<147868, 10000000>>,
               cup |-> <<625, 10000>>, tbsp |-> <<1, 1>>, tsp |-> <<3, 1>>],
     tsp |-> [ml |-> <<492892, 100000>>, l |-> <<492892, 100000000>>,
              cup |-> <<208333, 10000000>>, tbsp |-> <<333333, 1000000>>,
              tsp |-> <<1, 1>>],
     g |-> [g |-> <<1, 1>>, kg |-> <<1, 1000>>, oz |-> <<35274, 1000000>>,
            lb |-> <<220462, 100000000>>],
     kg |-> [g |-> <<1000, 1>>, kg |-> <<1, 1>>, oz |-> <<35274, 1000>>,
             lb |-> <<220462, 100000>>],
     oz |-> [g |-> <<283495, 10000>>, kg |-> <<283495, 10000000>>, oz |-> <<1, 1>>,
             lb |-> <<625, 10000>>],
     lb |-> [g |-> <<453592, 1000>>, kg |-> <<453592, 1000000>>, oz |-> <<16, 1>>,
             lb |-> <<1, 1>>]]

\* the lower-case property names that every object inherits from
\* Object.prototype: conversions[name] and conversions[unit][name] are then
\* the function Object, whose own [name] is a function again
Inherited == {"constructor"}

\* object[key] as the test and the product of convertUnit see it: a factor
\* of the table, an inherited function, or undefined
factorOf(fromLower, toLower) ==
    IF fromLower \in DOMAIN conversions /\ toLower \in DOMAIN conversions[fromLower]
    THEN <<"number", conversions[fromLower][toLower]>>
    ELSE IF (fromLower \in DOMAIN conversions \/ fromLower \in Inherited)
            /\ toLower \in Inherited
    THEN <<"function", <<0, 1>>>>
    ELSE <<"undefined", <<0, 1>>>>

\* ScalingUtils.convertUnit of a finite amount: the exact fraction p / q of a
\* thousandth, or NaN
convertUnit(amount, fromUnit, toUnit) ==
    LET fromLower == toLowerCase(fromUnit)
        toLower == toLowerCase(toUnit)
        factor == factorOf(fromLower, toLower)
    IN IF factor[1] = "number"
       THEN [tag |-> "finite", p |-> amount[2] * factor[2][1], q |-> factor[2][2]]
       ELSE IF factor[1] = "function"
       THEN [tag |-> "NaN", p |-> 0, q |-> 1]
       ELSE [tag |-> "finite", p |-> amount[2], q |-> 1]

\* x >= c, for c in thousandths (false for NaN)
AtLeast(x, c) ==
    CASE x.tag = "finite" -> x.p >= c * x.q
      [] x.tag = "Infinity" -> x.p > 0
      [] OTHER -> FALSE

\* amount / k and amount * k of a finite amount
dividedBy(amount, k) == [amount EXCEPT !.q = @ * k]

multipliedBy(amount, k) == [amount EXCEPT !.p = @ * k]

\* an unchanged amount returns with its unit lower-cased
suggestBetterUnit_lowerCased(amount, currentUnit) ==
    LET unit == toLowerCase(currentUnit)
    IN IF AtLeast(amount, 1000000) /\ unit = "ml"
       THEN [amount |-> dividedBy(amount, 1000), unit |-> "l"]
       ELSE IF LessThan(amount, 1000) /\ unit = "l"
       THEN [amount |-> multipliedBy(amount, 1000), unit |-> "ml"]
       ELSE IF AtLeast(amount, 3000) /\ unit = "tsp"
       THEN [amount |-> dividedBy(amount, 3), unit |-> "tbsp"]
       ELSE IF AtLeast(amount, 16000) /\ unit = "tbsp"
       THEN [amount |-> dividedBy(amount, 16), unit |-> "cup"]
       ELSE IF LessThan(amount, 1000) /\ unit = "tbsp"
       THEN [amount |-> multipliedBy(amount, 3), unit |-> "tsp"]
       ELSE IF LessThan(amount, 250) /\ unit = "cup"
       THEN [amount |-> multipliedBy(amount, 16), unit |-> "tbsp"]
       ELSE IF AtLeast(amount, 1000000) /\ unit = "g"
       THEN [amount |-> dividedBy(amount, 1000), unit |-> "kg"]
       ELSE IF LessThan(amount, 1000) /\ unit = "kg"
       THEN [amount |-> multipliedBy(amount, 1000), unit |-> "g"]
       ELSE IF AtLeast(amount, 16000) /\ unit = "oz"
       THEN [amount |-> dividedBy(amount, 16), unit |-> "lb"]
       ELSE IF LessThan(amount, 1000) /\ unit = "lb"
       THEN [amount |-> multipliedBy(amount, 16), unit |-> "oz"]
       ELSE [amount |-> amount, unit |-> unit]

\* teaspoons become tablespoons from 1 teaspoon on
suggestBetterUnit_tspFromOne(amount, currentUnit) ==
    LET unit == toLowerCase(currentUnit)
    IN IF AtLeast(amount, 1000000) /\ unit = "ml"
       THEN [amount |-> dividedBy(amount, 1000), unit |-> "l"]
       ELSE IF LessThan(amount, 1000) /\ unit = "l"
       THEN [amount |-> multipliedBy(amount, 1000), unit |-> "ml"]
       ELSE IF AtLeast(amount, 1000) /\ unit = "tsp"
       THEN [amount |-> dividedBy(amount, 3), unit |-> "tbsp"]
       ELSE IF AtLeast(amount, 16000) /\ unit = "tbsp"
       THEN [amount |-> dividedBy(amount, 16), unit |-> "cup"]
       ELSE IF LessThan(amount, 1000) /\ unit = "tbsp"
       THEN [amount |-> multipliedBy(amount, 3), unit |-> "tsp"]
       ELSE IF LessThan(amount, 250) /\ unit = "cup"
       THEN [amount |-> multipliedBy(amount, 16), unit |-> "tbsp"]
       ELSE IF AtLeast(amount, 1000000) /\ unit = "g"
       THEN [amount |-> dividedBy(amount, 1000), unit |-> "kg"]
       ELSE IF LessThan(amount, 1000) /\ unit = "kg"
       THEN [amount |-> multipliedBy(amount, 1000), unit |-> "g"]
       ELSE IF AtLeast(amount, 16000) /\ unit = "oz"
       THEN [amount |-> dividedBy(amount, 16), unit |-> "lb"]
       ELSE IF LessThan(amount, 1000) /\ unit = "lb"
       THEN [amount |-> multipliedBy(amount, 16), unit |-> "oz"]
       ELSE [amount |-> amount, unit |-> currentUnit]

\* ScalingUtils.suggestBetterUnit of an amount p / q of a thousandth
suggestBetterUnit(amount, currentUnit) ==
    LET unit == toLowerCase(currentUnit)
    IN IF AtLeast(amount, 1000000) /\ unit = "ml"
       THEN [amount |-> dividedBy(amount, 1000), unit |-> "l"]
       ELSE IF LessThan(amount, 1000) /\ unit = "l"
       THEN [amount |-> multipliedBy(amount, 1000), unit |-> "ml"]
       ELSE IF AtLeast(amount, 3000) /\ unit = "tsp"
       THEN [amount |-> dividedBy(amount, 3), unit |-> "tbsp"]
       ELSE IF AtLeast(amount, 16000) /\ unit = "tbsp"
       THEN [amount |-> dividedBy(amount, 16), unit |-> "cup"]
       ELSE IF LessThan(amount, 1000) /\ unit = "tbsp"
       THEN [amount |-> multipliedBy(amount, 3), unit |-> "tsp"]
       ELSE IF LessThan(amount, 250) /\ unit = "cup"
       THEN [amount |-> multipliedBy(amount, 16), unit |-> "tbsp"]
       ELSE IF AtLeast(amount, 1000000) /\ unit = "g"
       THEN [amount |-> dividedBy(amount, 1000), unit |-> "kg"]
       ELSE IF LessThan(amount, 1000) /\ unit = "kg"
       THEN [amount |-> multipliedBy(amount, 1000), unit |-> "g"]
       ELSE IF AtLeast(amount, 16000) /\ unit = "oz"
       THEN [amount |-> dividedBy(amount, 16), unit |-> "lb"]
       ELSE IF LessThan(amount, 1000) /\ unit = "lb"
       THEN [amount |-> multipliedBy(amount, 16), unit |-> "oz"]
       ELSE [amount |-> amount, unit |-> currentUnit]

(* ----------------------- RecipeModel, NutritionModel ------------------- *)
\* RecipeModel.scaleIngredients: the argument list as the call leaves it, and
\* the list returned
RecipeModel_scaleIngredients(ingredients, originalServings, newServings) ==
    [ingredients |-> ingredients,
     result |-> [i \in DOMAIN ingredients |->
                    [ingredients[i] EXCEPT !.amount =
                        MathRound(times(@, originalServings, newServings), 100)]]]

\* NutritionModel.scaleNutrition
NutritionModel_scaleNutrition(nutrition, originalServings, newServings) ==
    LET scaled(field) == times(field, originalServings, newServings)
    IN [calories |-> MathRound(scaled(nutrition.calories), 1),
        protein |-> MathRound(scaled(nutrition.protein), 100),
        carbohydrates |-> MathRound(scaled(nutrition.carbohydrates), 100),
        fat |-> MathRound(scaled(nutrition.fat), 100),
        fiber |-> MathRound(scaled(nutrition.fiber), 100),
        sugar |-> MathRound(scaled(nutrition.sugar), 100),
        sodium |-> MathRound(scaled(nutrition.sodium), 100),
        vitamins |-> [key \in DOMAIN nutrition.vitamins |->
                        MathRound(scaled(nutrition.vitamins[key]), 100)],
        minerals |-> [key \in DOMAIN nutrition.minerals |->
                        MathRound(scaled(nutrition.minerals[key]), 100)],
        servingSize |-> newServings]

(* --------------------------- recipes table ----------------------------- *)
\* rows of the recipe_nutrition table, by recipe_id
StoredNutrition ==
    [id \in {"r1", "r2"} |->
        IF id = "r1"
        THEN [calories |-> Finite(350000), protein |-> Finite(25500),
              carbohydrates |-> Finite(40250), fat |-> Finite(10125), fiber |-> Finite(0),
              sugar |-> Finite(5055), sodium |-> Finite(1234),
              vitamins |-> [A |-> Finite(10050), C |-> Finite(333)],
              minerals |-> [iron |-> Finite(1775)], servingSize |-> 4]
        ELSE [calories |-> Finite(90000), protein |-> Finite(1500),
              carbohydrates |-> Finite(700), fat |-> Finite(9150), fiber |-> Finite(0),
              sugar |-> Finite(490), sodium |-> Finite(5),
              vitamins |-> [B12 |-> Finite(100)],
              minerals |-> [zinc |-> Finite(40)], servingSize |-> 3]]

\* rows of the recipes table, each with the recipe_nutrition rows of the
\* recipe; the serving size of a recipe made by createDetailedRecipe is the
\* amount of its first ingredient, which may be 0
StoredRecipes ==
    [id \in {"r1", "r2", "r0"} |->
        CASE id = "r1" ->
                [ingredients |->
                    << [name |-> "flour", amount |-> Finite(2000), unit |-> "cup", notes |-> "sifted"],
                       [name |-> "salt", amount |-> Finite(500), unit |-> "tsp", notes |-> "none"],
                       [name |-> "egg", amount |-> Finite(3000), unit |-> "", notes |-> "none"] >>,
                 servingSize |-> 4, cookingTime |-> Finite(30000), difficulty |-> 2,
                 popularity |-> 0, nutrition |-> <<StoredNutrition["r1"]>>]
          [] id = "r2" ->
                [ingredients |->
                    << [name |-> "butter", amount |-> Finite(125000), unit |-> "g", notes |-> "none"],
                       [name |-> "milk", amount |-> Finite(333), unit |-> "l", notes |-> "cold"] >>,
                 servingSize |-> 3, cookingTime |-> Finite(45000), difficulty |-> 5,
                 popularity |-> 0, nutrition |-> <<StoredNutrition["r2"]>>]
          [] OTHER ->
                [ingredients |->
                    << [name |-> "water", amount |-> Finite(0), unit |-> "cup", notes |-> "none"],
                       [name |-> "rice", amount |-> Finite(1000), unit |-> "cup", notes |-> "none"] >>,
                 servingSize |-> 0, cookingTime |-> Finite(1000), difficulty |-> 1,
                 popularity |-> 0, nutrition |-> <<>>]]

\* the bounds of newServingSize in scaleRequestSchema
MinServingSize == 1
MaxServingSize == 20

\* RecipeModel.mapRowToRecipe: the Recipe of a row, its nutritionalInfo
\* undefined (written <<>>)
mapRowToRecipe(row) ==
    [ingredients |-> row.ingredients, servingSize |-> row.servingSize,
     cookingTime |-> row.cookingTime, difficulty |-> row.difficulty,
     popularity |-> row.popularity, nutritionalInfo |-> <<>>]

\* the scaled ingredients and serving size written back to the row
scaleRecipe_savesScaled(table, request, findOk, updateOk) ==
    IF ~findOk
    THEN [table |-> table, statusCode |-> 500, code |-> "FETCH_FAILED", recipe |-> <<>>]
    ELSE IF request.recipeId \notin DOMAIN table
    THEN [table |-> table, statusCode |-> 404, code |-> "NOT_FOUND", recipe |-> <<>>]
    ELSE LET recipe == mapRowToRecipe(table[request.recipeId])
             scaledIngredients ==
                 RecipeModel_scaleIngredients(recipe.ingredients, recipe.servingSize,
                                              request.newServingSize).result
         IN [table |-> [table EXCEPT ![request.recipeId].ingredients = scaledIngredients,
                                     ![request.recipeId].servingSize = request.newServingSize],
             statusCode |-> 200, code |-> "none",
             recipe |-> << [recipe EXCEPT !.ingredients = scaledIngredients,
                                          !.servingSize = request.newServingSize] >>]

\* RecipeService.scaleRecipe: the recipes table after the call, and the
\* error thrown or the recipe returned
scaleRecipe(table, request, findOk, updateOk) ==
    IF ~findOk
    THEN [table |-> table, statusCode |-> 500, code |-> "FETCH_FAILED", recipe |-> <<>>]
    ELSE IF request.recipeId \notin DOMAIN table
    THEN [table |-> table, statusCode |-> 404, code |-> "NOT_FOUND", recipe |-> <<>>]
    ELSE LET recipe == mapRowToRecipe(table[request.recipeId])
             scaledIngredients ==
                 RecipeModel_scaleIngredients(recipe.ingredients, recipe.servingSize,
                                              request.newServingSize).result
             scaledNutrition ==
                 IF recipe.nutritionalInfo # <<>>
                 THEN << NutritionModel_scaleNutrition(recipe.nutritionalInfo[1],
                             recipe.servingSize, request.newServingSize) >>
                 ELSE <<>>
         IN [table |-> IF updateOk
                       THEN [table EXCEPT ![request.recipeId].popularity = @ + 1]
                       ELSE table,
             statusCode |-> 200, code |-> "none",
             recipe |-> << [recipe EXCEPT !.ingredients = scaledIngredients,
                                          !.servingSize = request.newServingSize,
                                          !.nutritionalInfo = scaledNutrition] >>]

\* POST /api/recipes/:id/scale: validateRequest(scaleRequestSchema), then the
\* service call, then handleError
postScale(table, id, newServingSize, findOk, updateOk) ==
    IF newServingSize < MinServingSize \/ newServingSize > MaxServingSize
    THEN [table |-> table, statusCode |-> 400, code |-> "Validation failed", recipe |-> <<>>]
    ELSE scaleRecipe(table, [recipeId |-> id, newServingSize |-> newServingSize],
                     findOk, updateOk)

(* ------------------------------ state ---------------------------------- *)
VARIABLES
    config,        \* config.cacheTtlHours, config.cacheMaxEntries
    now,           \* the clock, in hours
    recipe_cache,  \* rows of the recipe_cache table, in rowid order
    last,          \* the call that completed last, with its arguments and result
    hitsSinceSave, \* per query_hash: lookups that hit since the entry was saved
    calls,         \* per concurrent caller: the call it is in, at which statement
    base,          \* the table before the concurrent callers started
    recipes        \* rows of the recipes and recipe_nutrition tables, by recipe id

vars == <<config, now, recipe_cache, last, hitsSinceSave, calls, base, recipes>>

(* ----------------------- recipe_cache statements ----------------------- *)
\* mutant: a plain INSERT into a table without the UNIQUE constraint
InsertOrReplace_insertOnly(table, queryHash, recipeData, t) ==
    Append(table,
           [query_hash |-> queryHash, recipe_data |-> recipeData, hit_count |-> 1,
            last_accessed |-> CURRENT_TIMESTAMP(t), created_at |-> CURRENT_TIMESTAMP(t)])

\* INSERT OR REPLACE INTO recipe_cache (...) VALUES (?, ?, ?, 1,
\* CURRENT_TIMESTAMP, CURRENT_TIMESTAMP): the row that conflicts on the
\* UNIQUE query_hash is deleted, the new row gets the next rowid
InsertOrReplace(table, queryHash, recipeData, t) ==
    Append(SelectSeq(table, LAMBDA row : row.query_hash # queryHash),
           [query_hash |-> queryHash, recipe_data |-> recipeData, hit_count |-> 1,
            last_accessed |-> CURRENT_TIMESTAMP(t), created_at |-> CURRENT_TIMESTAMP(t)])

\* SELECT * FROM recipe_cache WHERE query_hash = ?  (the rows that match)
SelectByHash(table, queryHash) ==
    SelectSeq(table, LAMBDA row : row.query_hash = queryHash)

\* mutant: the UPDATE has no WHERE clause
UpdateHit_noWhere(table, queryHash, t) ==
    [i \in DOMAIN table |->
        [table[i] EXCEPT !.hit_count = @ + 1, !.last_accessed = CURRENT_TIMESTAMP(t)]]

\* UPDATE recipe_cache SET hit_count = hit_count + 1,
\* last_accessed = CURRENT_TIMESTAMP WHERE query_hash = ?
UpdateHit(table, queryHash, t) ==
    [i \in DOMAIN table |->
        IF table[i].query_hash = queryHash
        THEN [table[i] EXCEPT !.hit_count = @ + 1, !.last_accessed = CURRENT_TIMESTAMP(t)]
        ELSE table[i]]

\* DELETE FROM recipe_cache WHERE last_accessed < ?
DeleteExpired(table, cutoff) ==
    SelectSeq(table, LAMBDA row : ~TextLess(row.last_accessed, cutoff))

\* mutant: the most popular entries sort first
OrderedBefore_hitCountDesc(a, b) ==
    \/ a.hit_count > b.hit_count
    \/ a.hit_count = b.hit_count /\ TextLess(a.last_accessed, b.last_accessed)

\* ORDER BY hit_count ASC, last_accessed ASC: row a sorts strictly before b
OrderedBefore(a, b) ==
    \/ a.hit_count < b.hit_count
    \/ a.hit_count = b.hit_count /\ TextLess(a.last_accessed, b.last_accessed)

\* SELECT id FROM recipe_cache ORDER BY hit_count ASC, last_accessed ASC
\* LIMIT ?: the sets of rows the statement may select (rows that compare
\* equal come in an order SQL leaves open)
SelectLeastValuable(table, limit) ==
    LET n == IF limit < Len(table) THEN limit ELSE Len(table)
    IN { D \in SUBSET DOMAIN table :
            /\ Cardinality(D) = n
            /\ \A i \in D, j \in DOMAIN table \ D : ~OrderedBefore(table[j], table[i]) }

\* DELETE FROM recipe_cache WHERE id IN (...)
DeleteIds(table, D) ==
    LET keep[i \in 0..Len(table)] ==
            IF i = 0 THEN <<>>
            ELSE IF i \in D THEN keep[i - 1] ELSE Append(keep[i - 1], table[i])
    IN keep[Len(table)]

(* ------------------------- RecipeCacheModel ---------------------------- *)
\* RecipeCacheModel.save: dbOk = FALSE is a rejected database.run
save(table, queryHash, recipe, t, dbOk) ==
    IF dbOk THEN InsertOrReplace(table, queryHash, JSONStringify(recipe), t) ELSE table

\* RecipeCacheModel.get: the table afterwards and the value returned
\* (Null, or the parsed recipe_data of the first matching row)
get(table, queryHash, t, selectOk, updateOk) ==
    LET rows == SelectByHash(table, queryHash)
    IN IF ~selectOk THEN [table |-> table, value |-> Null]
       ELSE IF rows = <<>> THEN [table |-> table, value |-> Null]
       ELSE IF ~updateOk THEN [table |-> table, value |-> Null]
       ELSE [table |-> UpdateHit(table, queryHash, t),
             value |-> <<JSONParse(rows[1].recipe_data)>>]

(* ------------------------ Database.cleanupCache ------------------------ *)
\* mutant: the cutoff lies one day too early
cutoffDate_dayEarly(t, cfg) == toISOString(t - cfg.cacheTtlHours - HoursPerDay)

cutoffDate(t, cfg) == toISOString(t - cfg.cacheTtlHours)

\* mutant: the excess is computed one too small
cleanupCache_excessOffByOne(table, t, cfg) ==
    LET afterTtl == DeleteExpired(table, cutoffDate(t, cfg))
        count == Len(afterTtl)
        excessCount == count - cfg.cacheMaxEntries - 1
    IN { [table |-> table, afterTtl |-> table, completed |-> FALSE],
         [table |-> afterTtl, afterTtl |-> afterTtl, completed |-> FALSE] }
       \cup
       (IF count > cfg.cacheMaxEntries
        THEN { [table |-> DeleteIds(afterTtl, D), afterTtl |-> afterTtl, completed |-> TRUE]
                 : D \in SelectLeastValuable(afterTtl, excessCount) }
        ELSE { [table |-> afterTtl, afterTtl |-> afterTtl, completed |-> TRUE] })

\* the outcomes of one uninterrupted cleanupCache: rejected at its first
\* statement, rejected at a later one, or completed
cleanupCache(table, t, cfg) ==
    LET afterTtl == DeleteExpired(table, cutoffDate(t, cfg))
        count == Len(afterTtl)
        excessCount == count - cfg.cacheMaxEntries
    IN { [table |-> table, afterTtl |-> table, completed |-> FALSE],
         [table |-> afterTtl, afterTtl |-> afterTtl, completed |-> FALSE] }
       \cup
       (IF count > cfg.cacheMaxEntries
        THEN { [table |-> DeleteIds(afterTtl, D), afterTtl |-> afterTtl, completed |-> TRUE]
                 : D \in SelectLeastValuable(afterTtl, excessCount) }
        ELSE { [table |-> afterTtl, afterTtl |-> afterTtl, completed |-> TRUE] })

(* --------------------------- RecipeService ----------------------------- *)
\* the lists the generation collaborator may return for a request type
GeneratorResults(type) ==
    IF type = "ingredients"
    THEN { <<>> } \cup { <<s>> : s \in Suggestions }
            \cup { <<s1, s2>> : s1 \in {s \in Suggestions : s.name = "omelette"},
                                s2 \in {s \in Suggestions : s.name = "pancake"} }
    ELSE { <<>> } \cup { <<v>> : v \in Variations }

toRecipe(type, item) ==
    IF type = "ingredients" THEN convertSuggestionToRecipe(item)
    ELSE convertVariationToRecipe(item)

fromRecipe(type, recipe) ==
    IF type = "ingredients" THEN convertRecipeToSuggestion(recipe)
    ELSE convertRecipeToVariation(recipe)

\* for (const item of generated) { await RecipeCacheModel.save(cacheKey, recipe) }
RECURSIVE saveAll(_, _, _, _, _, _)
saveAll(table, cacheKey, type, generated, t, saveOk) ==
    IF generated = <<>> THEN table
    ELSE LET n == Len(generated)
             before == saveAll(table, cacheKey, type, SubSeq(generated, 1, n - 1), t, saveOk)
         IN save(before, cacheKey, toRecipe(type, generated[n]), t, saveOk[n])

\* mutant: a rejected cache SELECT reaches the handler's catch block
handleRequest_cacheErrorsPropagate(table, req, t, selectOk, updateOk, aiOk, generated, saveOk) ==
    LET cacheKey == cacheKeyOf(req)
        cached == get(table, cacheKey, t, selectOk, updateOk)
    IN IF ~selectOk
       THEN [table |-> table, aiCalled |-> FALSE,
             response |-> [status |-> "SERVICE_ERROR", body |-> <<>>]]
       ELSE IF cached.value # Null
       THEN [table |-> cached.table, aiCalled |-> FALSE,
             response |-> [status |-> "ok", body |-> <<fromRecipe(req.type, cached.value[1])>>]]
       ELSE IF ~aiOk
       THEN [table |-> cached.table, aiCalled |-> TRUE,
             response |-> [status |-> "SERVICE_ERROR", body |-> <<>>]]
       ELSE [table |-> saveAll(cached.table, cacheKey, req.type, generated, t, saveOk),
             aiCalled |-> TRUE,
             response |-> [status |-> "ok", body |-> generated]]

\* getRecipesByIngredients / getRecipeVariationsByName, run without
\* interruption: the table afterwards, the response, whether the generator
\* was invoked
handleRequest(table, req, t, selectOk, updateOk, aiOk, generated, saveOk) ==
    LET cacheKey == cacheKeyOf(req)
        cached == get(table, cacheKey, t, selectOk, updateOk)
    IN IF cached.value # Null
       THEN [table |-> cached.table, aiCalled |-> FALSE,
             response |-> [status |-> "ok", body |-> <<fromRecipe(req.type, cached.value[1])>>]]
       ELSE IF ~aiOk
       THEN [table |-> cached.table, aiCalled |-> TRUE,
             response |-> [status |-> "SERVICE_ERROR", body |-> <<>>]]
       ELSE [table |-> saveAll(cached.table, cacheKey, req.type, generated, t, saveOk),
             aiCalled |-> TRUE,
             response |-> [status |-> "ok", body |-> generated]]

(* ---------------------------- operations ------------------------------- *)
\* callers whose calls interleave at the awaited database statements
Callers == {"c1", "c2", "c3"}

\* configured values of CACHE_TTL_HOURS explored
TtlChoices == {12, 36}

\* the (queryHash, recipe) pairs RecipeCacheModel.save is called with
SaveCalls ==
    UNION { { <<cacheKeyOf(req), toRecipe(req.type, item)>> :
                item \in IF req.type = "foodName" THEN Variations
                         ELSE IF req.dietaryRestrictions[1] = "vegan" THEN Suggestions
                         ELSE {s \in Suggestions : s.name = "omelette"} }
            : req \in Requests }

\* the ways the two statements of RecipeCacheModel.get may be rejected
GetFaults == { <<TRUE, TRUE>>, <<FALSE, TRUE>>, <<TRUE, FALSE>> }

Init ==
    /\ config \in [cacheTtlHours : TtlChoices, cacheMaxEntries : 1..MaxCapacity]
    /\ now = 0
    /\ recipe_cache = <<>>
    /\ last = [op |-> "start"]
    /\ hitsSinceSave = [f \in Fingerprints |-> 0]
    /\ calls = [c \in Callers |-> [pc |-> "idle"]]
    /\ base = <<>>
    /\ recipes = StoredRecipes

Hashes(table) == {table[i].query_hash : i \in DOMAIN table}

\* the hit record is kept for the entries of the table only
ForEntries(hits, table) ==
    [f \in Fingerprints |-> IF f \in Hashes(table) THEN hits[f] ELSE 0]

\* time passes
Tick ==
    /\ now + ClockStep <= MaxTime
    /\ now' = now + ClockStep
    /\ last' = [op |-> "tick"]
    /\ UNCHANGED <<config, recipe_cache, hitsSinceSave, calls, base, recipes>>

\* a call of RecipeCacheModel.save(queryHash, recipe)
Save ==
    \E call \in SaveCalls, dbOk \in BOOLEAN :
        /\ recipe_cache' = save(recipe_cache, call[1], call[2], now, dbOk)
        /\ last' = IF dbOk
                   THEN [op |-> "save", queryHash |-> call[1], recipe |-> call[2],
                         existed |-> call[1] \in Hashes(recipe_cache)]
                   ELSE [op |-> "failed"]
        /\ hitsSinceSave' = IF dbOk THEN [hitsSinceSave EXCEPT ![call[1]] = 0]
                            ELSE hitsSinceSave
        /\ UNCHANGED <<config, now, calls, base, recipes>>

\* no entry that a get of queryHash would hit has reached MaxHits
BelowMaxHits(table, queryHash) ==
    \A i \in DOMAIN table : table[i].query_hash = queryHash => table[i].hit_count < MaxHits

\* a call of RecipeCacheModel.get(queryHash)
Get ==
    \E queryHash \in Fingerprints, fault \in GetFaults :
        /\ BelowMaxHits(recipe_cache, queryHash)
        /\ LET result == get(recipe_cache, queryHash, now, fault[1], fault[2])
           IN /\ recipe_cache' = result.table
              /\ last' = IF fault[1] /\ fault[2]
                         THEN [op |-> "get", queryHash |-> queryHash, value |-> result.value]
                         ELSE [op |-> "failed"]
              /\ hitsSinceSave' = IF result.value # Null
                                  THEN [hitsSinceSave EXCEPT ![queryHash] = @ + 1]
                                  ELSE hitsSinceSave
        /\ UNCHANGED <<config, now, calls, base, recipes>>

\* a call of Database.cleanupCache()
Sweep ==
    \E result \in cleanupCache(recipe_cache, now, config) :
        /\ recipe_cache' = result.table
        /\ last' = IF result.completed
                   THEN [op |-> "cleanupCache", before |-> recipe_cache,
                         afterTtl |-> result.afterTtl]
                   ELSE [op |-> "failed"]
        /\ hitsSinceSave' = ForEntries(hitsSinceSave, result.table)
        /\ UNCHANGED <<config, now, calls, base, recipes>>

\* a call of getRecipesByIngredients or getRecipeVariationsByName; a
\* rejected UPDATE is drawn only when the lookup finds a row, the generator's
\* result and the save faults only when the lookup does not answer the request
Request ==
    \E req \in Requests :
      \E fault \in IF CacheKeys[req] \in Hashes(recipe_cache) THEN GetFaults
                   ELSE {f \in GetFaults : f[2]} :
        /\ BelowMaxHits(recipe_cache, CacheKeys[req])
        /\ LET isHit == fault[1] /\ fault[2] /\ CacheKeys[req] \in Hashes(recipe_cache)
           IN \E aiOk \in IF isHit THEN {TRUE} ELSE BOOLEAN :
              \E generated \in IF isHit \/ ~aiOk THEN {<<>>} ELSE GeneratorResults(req.type) :
              \E saveOk \in [DOMAIN generated -> BOOLEAN] :
                LET result == handleRequest(recipe_cache, req, now, fault[1], fault[2],
                                            aiOk, generated, saveOk)
                IN /\ recipe_cache' = result.table
                   /\ last' = [op |-> "request", req |-> req, cacheKey |-> CacheKeys[req],
                               response |-> result.response,
                               aiCalled |-> result.aiCalled,
                               aiOk |-> aiOk,
                               generated |-> generated,
                               readFailed |-> ~(fault[1] /\ fault[2]),
                               writesFailed |-> {i \in DOMAIN saveOk : ~saveOk[i]}]
                   /\ hitsSinceSave' =
                        IF ~result.aiCalled
                        THEN [hitsSinceSave EXCEPT ![CacheKeys[req]] = @ + 1]
                        ELSE IF \E i \in DOMAIN saveOk : saveOk[i]
                        THEN [hitsSinceSave EXCEPT ![CacheKeys[req]] = 0]
                        ELSE hitsSinceSave
        /\ UNCHANGED <<config, now, calls, base, recipes>>

Next == Tick \/ Save \/ Get \/ Sweep

Spec == Init /\ [][Next]_vars

\* a CACHE_TTL_HOURS shorter than the clock's step
ShortTtl == 6

\* the store with the short time to live
InitShortTtl ==
    /\ config = [cacheTtlHours |-> ShortTtl, cacheMaxEntries |-> MaxCapacity]
    /\ now = 0
    /\ recipe_cache = <<>>
    /\ last = [op |-> "start"]
    /\ hitsSinceSave = [f \in Fingerprints |-> 0]
    /\ calls = [c \in Callers |-> [pc |-> "idle"]]
    /\ base = <<>>
    /\ recipes = StoredRecipes

SpecShortTtl == InitShortTtl /\ [][Next]_vars

\* the request handlers over the cache, with sweeps
NextService == Request \/ Sweep

InitService ==
    Init /\ config = [cacheTtlHours |-> 36, cacheMaxEntries |-> MaxCapacity]

SpecService == InitService /\ [][NextService]_vars

(* ------------------------- fingerprinting ------------------------------ *)
\* what a fingerprinting call leaves in last for the next call to compare with
Previous ==
    IF last.op = "prepare"
    THEN << [req |-> last.req, restrictions |-> last.restrictions,
             cacheKey |-> last.cacheKey, error |-> last.error] >>
    ELSE <<>>

\* a handler called with a request, up to the cache key it computes
Prepare ==
    \E req \in FieldRequests \cup UserRequests :
      \E profileOk \in IF req.userId = NoUser THEN {TRUE} ELSE BOOLEAN :
        LET result == prepare(req, profileOk)
        IN /\ last' = [op |-> "prepare", req |-> req, profileOk |-> profileOk,
                       restrictions |-> result.restrictions,
                       cacheKey |-> result.cacheKey, error |-> result.error,
                       prev |-> Previous]
           /\ UNCHANGED <<config, now, recipe_cache, hitsSinceSave, calls, base, recipes>>

\* a direct call of RecipeCacheModel.generateCacheKey; none of its statements
\* throws for these arguments
GenerateCacheKey ==
    \E type \in {"ingredients", "foodName", MissingType} :
    \E input \in { ingredientsInput(<<"egg">>, Undefined, "4"), foodNameInput("pizza", "4") } :
    \E restrictions \in { <<>>, <<"vegan">> } :
        /\ last' = [op |-> "generateCacheKey", type |-> type, input |-> input,
                    restrictions |-> restrictions, error |-> "none",
                    cacheKey |-> generateCacheKey(type, input, restrictions)]
        /\ UNCHANGED <<config, now, recipe_cache, hitsSinceSave, calls, base, recipes>>

NextFingerprint == Prepare \/ GenerateCacheKey

SpecFingerprint == InitService /\ [][NextFingerprint]_vars

(* ---------------------------- scaleRecipe ------------------------------ *)
\* serving sizes a caller may pass, valid or not
ServingArgs == (-1 .. MaxServings) \cup {2 * MaxServings, MaxServingSize + 1}

RecipeIds == DOMAIN StoredRecipes \cup {"missing"}

\* the statements of a scaleRecipe call that the database may reject:
\* the SELECT of findById, the UPDATE of incrementPopularity
ScaleFaults == { <<TRUE, TRUE>>, <<FALSE, TRUE>>, <<TRUE, FALSE>> }

BelowMaxPopularity(id) == id \in DOMAIN recipes => recipes[id].popularity < MaxPopularity

\* a direct call of RecipeService.scaleRecipe
ScaleRecipe ==
    \E id \in RecipeIds, newServingSize \in ServingArgs, fault \in ScaleFaults :
        /\ BelowMaxPopularity(id)
        /\ LET result == scaleRecipe(recipes, [recipeId |-> id, newServingSize |-> newServingSize],
                                     fault[1], fault[2])
           IN /\ recipes' = result.table
              /\ last' = [op |-> "scaleRecipe", recipeId |-> id,
                          newServingSize |-> newServingSize,
                          statusCode |-> result.statusCode, code |-> result.code,
                          recipe |-> result.recipe]
        /\ UNCHANGED <<config, now, recipe_cache, hitsSinceSave, calls, base>>

\* a POST /api/recipes/:id/scale request
PostScale ==
    \E id \in RecipeIds, newServingSize \in ServingArgs, fault \in ScaleFaults :
        /\ BelowMaxPopularity(id)
        /\ LET result == postScale(recipes, id, newServingSize, fault[1], fault[2])
           IN /\ recipes' = result.table
              /\ last' = [op |-> "postScale", recipeId |-> id,
                          newServingSize |-> newServingSize,
                          statusCode |-> result.statusCode, code |-> result.code,
                          recipe |-> result.recipe]
        /\ UNCHANGED <<config, now, recipe_cache, hitsSinceSave, calls, base>>

NextScaleRecipe == ScaleRecipe \/ PostScale

SpecScaleRecipe == InitService /\ [][NextScaleRecipe]_vars

(* --------------------------- scaling calls ----------------------------- *)
\* serving sizes passed to the scalers: positive ones, 0 and a negative one
Servings == (-1 .. MaxServings) \cup {2 * MaxServings}

Units == {"tsp", "pinch", "tbsp", "TBSP", "cup", "Cup", "l", "g", "kg", "oz", "lb",
          "piece", "", "ml"}

Amounts == {Finite(n) : n \in {0, 50, 333, 500, 1000, 2000, 9960, 12345}}

\* Ingredient[] arguments: one ingredient of every unit and amount, and the
\* lists of the stored recipes
IngredientLists ==
    { << [name |-> "item", amount |-> a, unit |-> u, notes |-> "none"] >>
        : a \in Amounts, u \in Units }
    \cup {StoredRecipes[id].ingredients : id \in DOMAIN StoredRecipes}

\* NutritionalInfo arguments
Nutritions ==
    { [calories |-> Finite(350000), protein |-> Finite(25500),
       carbohydrates |-> Finite(40250), fat |-> Finite(10125), fiber |-> Finite(0),
       sugar |-> Finite(5055), sodium |-> Finite(1234),
       vitamins |-> [A |-> Finite(10050), C |-> Finite(333)],
       minerals |-> [iron |-> Finite(1775)], servingSize |-> 4],
      [calories |-> Finite(3000), protein |-> Finite(50),
       carbohydrates |-> Finite(700), fat |-> Finite(150), fiber |-> Finite(1000),
       sugar |-> Finite(49), sodium |-> Finite(5),
       vitamins |-> [B12 |-> Finite(100)],
       minerals |-> [zinc |-> Finite(40), iron |-> Finite(1000)], servingSize |-> 1] }

\* cooking times in minutes, and the difficulty levels
CookingTimes == {Finite(1000 * m) : m \in {0, 1, 30, 45}}

Difficulties == 1 .. 5

\* amounts and unit names passed to convertUnit: the units of the table, in
\* upper case too, and names that are not units
ConvertAmounts == {Finite(n) : n \in {0, 500, 1000, 3000}}

ConvertUnits == Units \cup Inherited

\* amounts passed to suggestBetterUnit, on both sides of every threshold
SuggestAmounts ==
    { [tag |-> "finite", p |-> n, q |-> 1]
        : n \in {0, 50, 200, 250, 999, 1000, 2999, 3000, 15999, 16000, 47999, 48000,
                 999999, 1000000, 2500000} }

\* how often suggestBetterUnit is applied to its own result
MaxApplications == 4

\* the arguments of one call of a scaler
ScalingInputs ==
    { [op |-> "ingredients", ingredients |-> l, originalServings |-> a, newServings |-> b]
        : l \in IngredientLists, a \in Servings, b \in Servings }
    \cup
    { [op |-> "nutrition", nutrition |-> n, originalServings |-> a, newServings |-> b]
        : n \in Nutritions, a \in Servings, b \in Servings }
    \cup
    { [op |-> "cookingTime", originalTime |-> t, originalServings |-> a, newServings |-> b]
        : t \in CookingTimes, a \in Servings, b \in Servings }
    \cup
    { [op |-> "difficulty", originalDifficulty |-> d, originalServings |-> a,
       newServings |-> b]
        : d \in Difficulties, a \in Servings, b \in Servings }
    \cup
    { [op |-> "convert", amount |-> x, fromUnit |-> u, toUnit |-> v]
        : x \in ConvertAmounts, u \in ConvertUnits, v \in ConvertUnits }
    \cup
    { [op |-> "suggest", amount |-> x, currentUnit |-> u]
        : x \in SuggestAmounts, u \in Units }

InitScaling ==
    /\ config = [cacheTtlHours |-> 36, cacheMaxEntries |-> MaxCapacity]
    /\ now = 0
    /\ recipe_cache = <<>>
    /\ last \in ScalingInputs
    /\ hitsSinceSave = [f \in Fingerprints |-> 0]
    /\ calls = [c \in Callers |-> [pc |-> "idle"]]
    /\ base = <<>>
    /\ recipes = StoredRecipes

\* what a call of an ingredient scaler leaves in last
IngredientsScaled(fn, call) ==
    [op |-> "scaleIngredients", fn |-> fn, before |-> last.ingredients,
     after |-> call.ingredients, result |-> call.result,
     originalServings |-> last.originalServings, newServings |-> last.newServings]

\* a call of ScalingUtils.scaleIngredients
ScaleIngredients ==
    /\ last.op = "ingredients"
    /\ last' = IngredientsScaled("ScalingUtils",
                    ScalingUtils_scaleIngredients(last.ingredients, last.originalServings,
                                                  last.newServings))
    /\ UNCHANGED <<config, now, recipe_cache, hitsSinceSave, calls, base, recipes>>

\* a call of RecipeModel.scaleIngredients
ModelScaleIngredients ==
    /\ last.op = "ingredients"
    /\ last' = IngredientsScaled("RecipeModel",
                    RecipeModel_scaleIngredients(last.ingredients, last.originalServings,
                                                 last.newServings))
    /\ UNCHANGED <<config, now, recipe_cache, hitsSinceSave, calls, base, recipes>>

\* a call of ScalingUtils.scaleNutrition
ScaleNutrition ==
    /\ last.op = "nutrition"
    /\ last' = [op |-> "scaleNutrition", fn |-> "ScalingUtils", nutrition |-> last.nutrition,
                originalServings |-> last.originalServings, newServings |-> last.newServings,
                result |-> ScalingUtils_scaleNutrition(last.nutrition, last.originalServings,
                                                       last.newServings)]
    /\ UNCHANGED <<config, now, recipe_cache, hitsSinceSave, calls, base, recipes>>

\* a call of NutritionModel.scaleNutrition
ModelScaleNutrition ==
    /\ last.op = "nutrition"
    /\ last' = [op |-> "scaleNutrition", fn |-> "NutritionModel", nutrition |-> last.nutrition,
                originalServings |-> last.originalServings, newServings |-> last.newServings,
                result |-> NutritionModel_scaleNutrition(last.nutrition, last.originalServings,
                                                         last.newServings)]
    /\ UNCHANGED <<config, now, recipe_cache, hitsSinceSave, calls, base, recipes>>

\* the result of a scaleNutrition call scaled back to the original serving
\* size by the same function
ScaleNutritionBack ==
    /\ last.op = "scaleNutrition"
    /\ last' = [op |-> "scaleNutritionBack", fn |-> last.fn, nutrition |-> last.nutrition,
                originalServings |-> last.originalServings, newServings |-> last.newServings,
                result |-> IF last.fn = "ScalingUtils"
                           THEN ScalingUtils_scaleNutrition(last.result, last.newServings,
                                                            last.originalServings)
                           ELSE NutritionModel_scaleNutrition(last.result, last.newServings,
                                                              last.originalServings)]
    /\ UNCHANGED <<config, now, recipe_cache, hitsSinceSave, calls, base, recipes>>

\* a call of ScalingUtils.scaleCookingTime
ScaleCookingTime ==
    /\ last.op = "cookingTime"
    /\ last' = [op |-> "scaleCookingTime", originalTime |-> last.originalTime,
                originalServings |-> last.originalServings, newServings |-> last.newServings,
                result |-> scaleCookingTime(last.originalTime, last.originalServings,
                                            last.newServings)]
    /\ UNCHANGED <<config, now, recipe_cache, hitsSinceSave, calls, base, recipes>>

\* a call of ScalingUtils.scaleDifficulty
ScaleDifficulty ==
    /\ last.op = "difficulty"
    /\ last' = [op |-> "scaleDifficulty", originalDifficulty |-> last.originalDifficulty,
                originalServings |-> last.originalServings, newServings |-> last.newServings,
                result |-> scaleDifficulty(last.originalDifficulty, last.originalServings,
                                           last.newServings)]
    /\ UNCHANGED <<config, now, recipe_cache, hitsSinceSave, calls, base, recipes>>

\* a call of ScalingUtils.convertUnit
ConvertUnit ==
    /\ last.op = "convert"
    /\ last' = [op |-> "convertUnit", amount |-> last.amount, fromUnit |-> last.fromUnit,
                toUnit |-> last.toUnit,
                result |-> convertUnit(last.amount, last.fromUnit, last.toUnit)]
    /\ UNCHANGED <<config, now, recipe_cache, hitsSinceSave, calls, base, recipes>>

\* a call of ScalingUtils.suggestBetterUnit
SuggestBetterUnit ==
    /\ last.op = "suggest"
    /\ last' = [op |-> "suggestBetterUnit", amount |-> last.amount,
                currentUnit |-> last.currentUnit,
                result |-> suggestBetterUnit(last.amount, last.currentUnit),
                applications |-> 1]
    /\ UNCHANGED <<config, now, recipe_cache, hitsSinceSave, calls, base, recipes>>

\* a call of ScalingUtils.suggestBetterUnit on the result of the last one
SuggestAgain ==
    /\ last.op = "suggestBetterUnit"
    /\ last.applications < MaxApplications
    /\ last' = [op |-> "suggestBetterUnit", amount |-> last.result.amount,
                currentUnit |-> last.result.unit,
                result |-> suggestBetterUnit(last.result.amount, last.result.unit),
                applications |-> last.applications + 1]
    /\ UNCHANGED <<config, now, recipe_cache, hitsSinceSave, calls, base, recipes>>

NextScaling ==
    \/ ScaleIngredients \/ ModelScaleIngredients
    \/ ScaleNutrition \/ ModelScaleNutrition \/ ScaleNutritionBack
    \/ ScaleCookingTime \/ ScaleDifficulty
    \/ ConvertUnit \/ SuggestBetterUnit \/ SuggestAgain

SpecScaling == InitScaling /\ [][NextScaling]_vars

(* ----------------------- interleaved callers -------------------------- *)
\* tables that saves at hour 0 leave behind
InitialTables ==
    LET one == {save(<<>>, c[1], c[2], 0, TRUE) : c \in SaveCalls}
        two == {save(t, c[1], c[2], 0, TRUE) : t \in one, c \in SaveCalls}
        three == {save(t, c[1], c[2], 0, TRUE) : t \in two, c \in SaveCalls}
    IN {<<>>} \cup one \cup two \cup three

\* the concurrent callers start on a table that earlier saves have filled
InitConcurrent ==
    /\ config \in [cacheTtlHours : {36}, cacheMaxEntries : 1..MaxCapacity]
    /\ now = 0
    /\ recipe_cache \in InitialTables
    /\ last = [op |-> "start"]
    /\ hitsSinceSave = [f \in Fingerprints |-> 0]
    /\ calls = [c \in Callers |-> [pc |-> "idle"]]
    /\ base = recipe_cache
    /\ recipes = StoredRecipes

\* RecipeCacheModel.save: its one statement
CallSave(c) ==
    /\ calls[c].pc = "idle"
    /\ \E call \in SaveCalls :
        /\ recipe_cache' = save(recipe_cache, call[1], call[2], now, TRUE)
        /\ calls' = [calls EXCEPT ![c] =
                        [pc |-> "done", op |-> "save", queryHash |-> call[1],
                         recipe |-> call[2]]]
    /\ UNCHANGED <<config, now, last, hitsSinceSave, base, recipes>>

\* RecipeCacheModel.get: await database.get(SELECT ...); a miss returns null
GetSelect(c) ==
    /\ calls[c].pc = "idle"
    /\ \E queryHash \in Fingerprints :
        LET rows == SelectByHash(recipe_cache, queryHash)
        IN calls' = [calls EXCEPT ![c] =
                        IF rows = <<>>
                        THEN [pc |-> "done", op |-> "get", queryHash |-> queryHash,
                              value |-> Null]
                        ELSE [pc |-> "selected", op |-> "get", queryHash |-> queryHash,
                              row |-> rows[1]]]
    /\ UNCHANGED <<config, now, recipe_cache, last, hitsSinceSave, base, recipes>>

\* RecipeCacheModel.get: await database.run(UPDATE ...), then return the
\* parsed recipe_data of the row selected before
GetUpdate(c) ==
    /\ calls[c].pc = "selected"
    /\ recipe_cache' = UpdateHit(recipe_cache, calls[c].queryHash, now)
    /\ calls' = [calls EXCEPT ![c] =
                    [pc |-> "done", op |-> "get", queryHash |-> calls[c].queryHash,
                     value |-> <<JSONParse(calls[c].row.recipe_data)>>]]
    /\ UNCHANGED <<config, now, last, hitsSinceSave, base, recipes>>

\* Database.cleanupCache: await this.run(DELETE ... WHERE last_accessed < ?)
SweepTtl(c) ==
    /\ calls[c].pc = "idle"
    /\ recipe_cache' = DeleteExpired(recipe_cache, cutoffDate(now, config))
    /\ calls' = [calls EXCEPT ![c] = [pc |-> "ttlDeleted", op |-> "cleanupCache"]]
    /\ UNCHANGED <<config, now, last, hitsSinceSave, base, recipes>>

\* Database.cleanupCache: await this.get(SELECT COUNT(*)); done when the
\* count does not exceed the capacity
SweepCount(c) ==
    /\ calls[c].pc = "ttlDeleted"
    /\ calls' = [calls EXCEPT ![c] =
                    IF Len(recipe_cache) > config.cacheMaxEntries
                    THEN [pc |-> "counted", op |-> "cleanupCache",
                          count |-> Len(recipe_cache)]
                    ELSE [pc |-> "done", op |-> "cleanupCache"]]
    /\ UNCHANGED <<config, now, recipe_cache, last, hitsSinceSave, base, recipes>>

\* Database.cleanupCache: await this.run(DELETE ... WHERE id IN (... LIMIT ?))
SweepExcess(c) ==
    /\ calls[c].pc = "counted"
    /\ \E D \in SelectLeastValuable(recipe_cache, calls[c].count - config.cacheMaxEntries) :
          recipe_cache' = DeleteIds(recipe_cache, D)
    /\ calls' = [calls EXCEPT ![c] = [pc |-> "done", op |-> "cleanupCache"]]
    /\ UNCHANGED <<config, now, last, hitsSinceSave, base, recipes>>

NextConcurrent ==
    \E c \in Callers :
        \/ CallSave(c)
        \/ GetSelect(c)
        \/ GetUpdate(c)
        \/ SweepTtl(c)
        \/ SweepCount(c)
        \/ SweepExcess(c)

SpecConcurrent == InitConcurrent /\ [][NextConcurrent]_vars

\* scaleRecipe calls while the cache holds two entries of earlier requests
InitScaleCached ==
    /\ InitConcurrent
    /\ config.cacheMaxEntries = MaxCapacity
    /\ recipe_cache = CHOOSE table \in InitialTables : Len(table) = 2

SpecScaleCached == InitScaleCached /\ [][NextScaleRecipe]_vars

(* ------------------------------ helpers -------------------------------- *)
Rows(table) == {table[i] : i \in DOMAIN table}

RowsFor(table, queryHash) == {i \in DOMAIN table : table[i].query_hash = queryHash}

OtherRows(table, queryHash) == SelectSeq(table, LAMBDA row : row.query_hash # queryHash)

\* the entry was last accessed before now - cacheTtlHours
IsExpired(row, t, cfg) == InstantOf(row.last_accessed) < t - cfg.cacheTtlHours

(* ------------------------------- C1 ------------------------------------ *)
\* C1: when an uninterrupted cleanupCache has run to completion, the number
\* of entries in the store is at most config.cacheMaxEntries.
C1_CapacityAfterSweep ==
    last.op = "cleanupCache" => Len(recipe_cache) <= config.cacheMaxEntries

\* a completed sweep that found more entries than the capacity after its
\* TTL step and cut the store down to the capacity
C1_Witness ==
    /\ last.op = "cleanupCache"
    /\ Len(last.afterTtl) > config.cacheMaxEntries
    /\ Len(recipe_cache) = config.cacheMaxEntries

(* ------------------------------- C2 ------------------------------------ *)
\* C2: every entry whose lastAccessed is older than now - cacheTtlHours when
\* the sweep runs is absent from the store after the sweep, whatever its
\* hitCount.
C2_ExpiredAbsentAfterSweep ==
    last.op = "cleanupCache" =>
        \A i \in DOMAIN last.before :
            IsExpired(last.before[i], now, config)
                => last.before[i].query_hash \notin Hashes(recipe_cache)

\* a completed sweep that met an expired entry with more than one hit, next
\* to an entry that was not expired
C2_Witness ==
    /\ last.op = "cleanupCache"
    /\ \E i \in DOMAIN last.before :
            /\ IsExpired(last.before[i], now, config)
            /\ last.before[i].hit_count > 1
    /\ recipe_cache # <<>>

(* ------------------------------- C3 ------------------------------------ *)
\* the excess a completed sweep found after its TTL step
ExcessAfterTtl == Len(last.afterTtl) - config.cacheMaxEntries

\* row d does not come after row r in the order ascending hitCount, then
\* ascending lastAccessed
NotAfter(d, r) ==
    \/ d.hit_count < r.hit_count
    \/ /\ d.hit_count = r.hit_count
       /\ InstantOf(d.last_accessed) <= InstantOf(r.last_accessed)

\* position i comes before position j in the order ascending hitCount, then
\* ascending lastAccessed, then insertion order
ComesFirst(table, i, j) ==
    \/ table[i].hit_count < table[j].hit_count
    \/ /\ table[i].hit_count = table[j].hit_count
       /\ InstantOf(table[i].last_accessed) < InstantOf(table[j].last_accessed)
    \/ /\ table[i].hit_count = table[j].hit_count
       /\ InstantOf(table[i].last_accessed) = InstantOf(table[j].last_accessed)
       /\ i < j

\* the k positions that come first in that order
FirstInOrder(table, k) ==
    {i \in DOMAIN table : Cardinality({j \in DOMAIN table : ComesFirst(table, j, i)}) < k}

\* C3 as stated: when the entries remaining after the TTL step exceed the
\* capacity by k, the sweep deletes exactly the k entries that come first by
\* ascending hitCount, then ascending lastAccessed, then insertion order.
C3_EvictsFirstByInsertionOrder ==
    (last.op = "cleanupCache" /\ ExcessAfterTtl > 0) =>
        Rows(recipe_cache) =
            {last.afterTtl[i] :
                i \in DOMAIN last.afterTtl \ FirstInOrder(last.afterTtl, ExcessAfterTtl)}

\* C3 (amended): when the entries remaining after the TTL step exceed the
\* capacity by k, the sweep deletes exactly k of them and keeps the others
\* unchanged, and no deleted entry comes after a kept entry in the order
\* ascending hitCount, then ascending lastAccessed; which of the entries equal
\* in both are deleted is left open.
C3_EvictsLeastValuable ==
    (last.op = "cleanupCache" /\ ExcessAfterTtl > 0) =>
        LET kept == Rows(recipe_cache)
            deleted == Rows(last.afterTtl) \ kept
        IN /\ kept \subseteq Rows(last.afterTtl)
           /\ Cardinality(deleted) = ExcessAfterTtl
           /\ Cardinality(kept) = Len(recipe_cache)
           /\ \A d \in deleted, r \in kept : NotAfter(d, r)

\* a completed sweep that found three entries of equal age with hit counts
\* 1, 3, 2 for a capacity of two and removed the entry with one hit
C3_Witness ==
    /\ last.op = "cleanupCache"
    /\ config.cacheMaxEntries = 2
    /\ Len(last.afterTtl) = 3
    /\ last.afterTtl[1].hit_count = 1
    /\ last.afterTtl[2].hit_count = 3
    /\ last.afterTtl[3].hit_count = 2
    /\ \A i \in 1..3 : last.afterTtl[i].last_accessed = last.afterTtl[1].last_accessed
    /\ recipe_cache = <<last.afterTtl[2], last.afterTtl[3]>>

(* ------------------------------- C4 ------------------------------------ *)
\* C4: a get of a fingerprint in the store returns the stored payload, adds
\* exactly 1 to that entry's hitCount and sets its lastAccessed to now,
\* leaving its payload and every other entry unchanged; a get of a
\* fingerprint not in the store returns empty and changes nothing; and every
\* entry's hitCount is 1 plus the number of gets that hit it since its put.
C4_GetContract ==
    [][ /\ last'.op = "get" =>
            LET f == last'.queryHash
            IN IF f \in Hashes(recipe_cache)
               THEN /\ Len(recipe_cache') = Len(recipe_cache)
                    /\ \A i \in DOMAIN recipe_cache :
                         IF recipe_cache[i].query_hash = f
                         THEN /\ last'.value = <<recipe_cache[i].recipe_data[2]>>
                              /\ recipe_cache'[i].hit_count = recipe_cache[i].hit_count + 1
                              /\ InstantOf(recipe_cache'[i].last_accessed) = now
                              /\ recipe_cache'[i].recipe_data = recipe_cache[i].recipe_data
                              /\ recipe_cache'[i].query_hash = f
                              /\ recipe_cache'[i].created_at = recipe_cache[i].created_at
                         ELSE recipe_cache'[i] = recipe_cache[i]
               ELSE /\ last'.value = <<>>
                    /\ recipe_cache' = recipe_cache
        /\ \A i \in DOMAIN recipe_cache' :
              recipe_cache'[i].hit_count = 1 + hitsSinceSave'[recipe_cache'[i].query_hash]
      ]_vars

\* a get that hit an entry for the second time since its put, at a later
\* hour than the put, with another entry in the store
C4_Witness ==
    /\ last.op = "get"
    /\ last.value # <<>>
    /\ Len(recipe_cache) >= 2
    /\ \E i \in DOMAIN recipe_cache :
          /\ recipe_cache[i].query_hash = last.queryHash
          /\ recipe_cache[i].hit_count = 3
          /\ hitsSinceSave[last.queryHash] = 2
          /\ recipe_cache[i].last_accessed # recipe_cache[i].created_at

(* ------------------------------- C5 ------------------------------------ *)
\* C5: after put(f, p) the store holds exactly one entry for f, with payload
\* p, hitCount 1 and lastAccessed = createdAt = now, and the entries for other
\* fingerprints are unchanged.
C5_PutContract ==
    [][ last'.op = "save" =>
            LET f == last'.queryHash
            IN /\ Cardinality(RowsFor(recipe_cache', f)) = 1
               /\ \A i \in RowsFor(recipe_cache', f) :
                    /\ recipe_cache'[i].recipe_data[2].name = last'.recipe.name
                    /\ recipe_cache'[i].recipe_data[2].instructions = last'.recipe.instructions
                    /\ recipe_cache'[i].recipe_data[2].servingSize = last'.recipe.servingSize
                    /\ recipe_cache'[i].recipe_data[2].tags = last'.recipe.tags
                    /\ recipe_cache'[i].hit_count = 1
                    /\ InstantOf(recipe_cache'[i].last_accessed) = now
                    /\ InstantOf(recipe_cache'[i].created_at) = now
               /\ OtherRows(recipe_cache', f) = OtherRows(recipe_cache, f)
      ]_vars

\* a put that replaced an entry which had been hit, next to another entry
C5_Witness ==
    /\ last.op = "save"
    /\ last.existed
    /\ Len(recipe_cache) >= 2
    /\ now > 0

(* ------------------------------- C6 ------------------------------------ *)
\* the callers whose call has returned
Finished == {c \in Callers : calls[c].pc = "done"}

Quiescent == \A c \in Callers : calls[c].pc \in {"idle", "done"}

\* the orders in which the calls of a set of callers can be put in sequence
Orders(S) ==
    {o \in [1..Cardinality(S) -> S] : \A i, j \in DOMAIN o : o[i] = o[j] => i = j}

\* the table after the first n calls of an order, run one after another on
\* the table the callers started from
RECURSIVE TableAfter(_, _)
TableAfter(order, n) ==
    IF n = 0 THEN base
    ELSE LET t == TableAfter(order, n - 1)
             c == calls[order[n]]
         IN IF c.op = "save" THEN save(t, c.queryHash, c.recipe, now, TRUE)
            ELSE get(t, c.queryHash, now, TRUE, TRUE).table

\* payload and hit count of the entry of a fingerprint
EntryOf(table, f) ==
    {[recipe_data |-> table[i].recipe_data, hit_count |-> table[i].hit_count]
        : i \in RowsFor(table, f)}

\* the order explains what every get returned and the entry that is left
ExplainedBy(order, f) ==
    /\ \A n \in DOMAIN order :
          calls[order[n]].op = "get" =>
              calls[order[n]].value
                 = get(TableAfter(order, n - 1), f, now, TRUE, TRUE).value
    /\ EntryOf(recipe_cache, f) = EntryOf(TableAfter(order, Len(order)), f)

\* C6: gets and puts on one fingerprint are linearizable: once the concurrent
\* calls have returned, what the gets returned and the entry's payload and
\* hitCount are those of the same calls run one after another in some order
\* (for n gets that all hit the entry: hitCount is n higher).
C6_GetPutLinearizable ==
    \A f \in Fingerprints :
        ( /\ Quiescent
          /\ Finished # {}
          /\ \A c \in Finished : calls[c].op \in {"get", "save"} /\ calls[c].queryHash = f )
        => \E order \in Orders(Finished) : ExplainedBy(order, f)

(* ------------------------------- C7 ------------------------------------ *)
\* C7: a sweep that runs concurrently with gets and puts leaves at most
\* config.cacheMaxEntries entries in the store at the moment it completes.
C7_CapacityAfterConcurrentSweep ==
    [][ \A c \in Callers :
            ( /\ calls[c].pc # "done"
              /\ calls'[c].pc = "done"
              /\ calls'[c].op = "cleanupCache" )
            => Len(recipe_cache') <= config.cacheMaxEntries
      ]_vars

(* ------------------------------- C8 ------------------------------------ *)
\* C8: a rejected cache read is treated as a miss and a rejected cache write
\* is dropped: a by-ingredients or by-name request whose generation call
\* succeeds returns the generated payload, also when every cache read and
\* write of the request is rejected.
C8_CacheIsBestEffort ==
    last.op = "request" =>
        /\ last.readFailed => last.aiCalled
        /\ (last.aiCalled /\ last.aiOk) =>
                /\ last.response.status = "ok"
                /\ last.response.body = last.generated

\* a request for a cached fingerprint whose cache read was rejected and whose
\* cache writes were all rejected, answered with the two generated items
C8_Witness ==
    /\ last.op = "request"
    /\ last.readFailed
    /\ last.cacheKey \in Hashes(recipe_cache)
    /\ Len(last.generated) = 2
    /\ last.writesFailed = {1, 2}
    /\ last.response.status = "ok"
    /\ last.response.body = last.generated

(* ------------------------------- C9 ------------------------------------ *)
\* C9: after a miss whose generated payload was written to the cache, the next
\* request with the same fingerprint inputs (no sweep or other put in
\* between, no cache statement rejected) is served from the cache with the
\* payload the generator produced for the miss, and the generator is not
\* invoked again.
C9_MissThenHit ==
    [][ ( /\ last.op = "request"
          /\ last.aiCalled /\ last.aiOk /\ last.generated # <<>>
          /\ ~last.readFailed /\ last.writesFailed = {}
          /\ last'.op = "request"
          /\ last'.cacheKey = last.cacheKey
          /\ ~last'.readFailed /\ last'.writesFailed = {} )
        => ( /\ ~last'.aiCalled
             /\ last'.response.status = "ok"
             /\ last'.response.body = last.generated )
      ]_vars

(* ------------------------------- C10 ----------------------------------- *)
\* two requests that differ at most in the order of their restriction lists
SameUpToRestrictionOrder(r1, r2) ==
    /\ r1.type = r2.type
    /\ r1.servingSize = r2.servingSize
    /\ r1.userId = r2.userId
    /\ IF r1.type = "ingredients"
       THEN r1.ingredients = r2.ingredients /\ r1.cuisinePreference = r2.cuisinePreference
       ELSE r1.foodName = r2.foodName
    /\ Len(r1.dietaryRestrictions) = Len(r2.dietaryRestrictions)
    /\ {r1.dietaryRestrictions[i] : i \in DOMAIN r1.dietaryRestrictions}
         = {r2.dietaryRestrictions[i] : i \in DOMAIN r2.dietaryRestrictions}

\* C10: the fingerprint a handler computes for a request is the fingerprint
\* of every request that differs from it only in the order of the dietary
\* restrictions.
C10_FingerprintOrderIndependent ==
    last.op = "request" =>
        \A other \in Requests :
            SameUpToRestrictionOrder(last.req, other) => cacheKeyOf(other) = last.cacheKey

(* ------------------------------- C11 ----------------------------------- *)
\* the members of a restriction list
Members(list) == {list[i] : i \in DOMAIN list}

\* two requests differ in request type, ingredient list, food name, serving
\* size or cuisine
DifferInField(a, b) ==
    \/ a.type # b.type
    \/ /\ a.type = "ingredients" /\ b.type = "ingredients"
       /\ \/ a.ingredients # b.ingredients
          \/ a.cuisinePreference # b.cuisinePreference
          \/ a.servingSize # b.servingSize
    \/ /\ a.type = "foodName" /\ b.type = "foodName"
       /\ \/ a.foodName # b.foodName
          \/ a.servingSize # b.servingSize

\* two handler calls in a row, both of which computed a cache key
TwoPrepared ==
    /\ last.op = "prepare" /\ last.error = "none"
    /\ last.prev # <<>> /\ last.prev[1].error = "none"

\* C11: two requests that differ in request type, ingredient list, food
\* name, serving size, cuisine (present or absent) or in the members of the
\* restriction set they are fingerprinted with get different cache keys
\* (md5 taken as injective on the serialized text)
C11_FingerprintsDistinct ==
    (/\ TwoPrepared
     /\ \/ DifferInField(last.req, last.prev[1].req)
        \/ Members(last.restrictions) # Members(last.prev[1].restrictions))
    => last.cacheKey # last.prev[1].cacheKey

\* C11 witness: two requests that differ only in that the second has no
\* cuisine preference got different keys
C11_Witness ==
    /\ TwoPrepared
    /\ last.req.type = "ingredients" /\ last.prev[1].req.type = "ingredients"
    /\ last.req.cuisinePreference = Undefined
    /\ last.prev[1].req = [last.req EXCEPT !.cuisinePreference = <<"s", "thai">>]
    /\ last.cacheKey # last.prev[1].cacheKey

(* ------------------------------- C12 ----------------------------------- *)
\* C12: generateCacheKey returns a key for every well-formed call, and a
\* call whose request type is missing fails with InvalidRequest instead of
\* returning a key
C12_MissingTypeIsInvalidRequest ==
    last.op = "generateCacheKey" =>
        /\ last.type # MissingType => (last.error = "none" /\ last.cacheKey # Null)
        /\ last.type = MissingType => last.error = "InvalidRequest"

(* ------------------------------- C13 ----------------------------------- *)
\* the restrictions stored for a user, per list and together
StoredMembers(userId) ==
    IF userId \in DOMAIN DietaryProfiles
    THEN [allergies |-> Members(DietaryProfiles[userId].allergies),
          dietaryPreferences |-> Members(DietaryProfiles[userId].dietaryPreferences),
          healthConditions |-> Members(DietaryProfiles[userId].healthConditions)]
    ELSE [allergies |-> {}, dietaryPreferences |-> {}, healthConditions |-> {}]

AllStoredMembers(userId) ==
    StoredMembers(userId).allergies \cup StoredMembers(userId).dietaryPreferences
        \cup StoredMembers(userId).healthConditions

NoDuplicates(list) == \A i, j \in DOMAIN list : i # j => list[i] # list[j]

\* C13: with a userId, the aggregated restrictions are the union of the
\* request's restrictions with the stored allergies, preferences and health
\* conditions, hold no identifier twice, and are the same set for a request
\* and a profile whose lists are reorderings of the previous call's
C13_AggregationIsUnion ==
    (last.op = "prepare" /\ last.req.userId # NoUser /\ last.error = "none") =>
        /\ Members(last.restrictions) =
                Members(last.req.dietaryRestrictions) \cup AllStoredMembers(last.req.userId)
        /\ NoDuplicates(last.restrictions)
        /\ (/\ TwoPrepared
            /\ last.prev[1].req.userId # NoUser
            /\ Members(last.prev[1].req.dietaryRestrictions) = Members(last.req.dietaryRestrictions)
            /\ StoredMembers(last.prev[1].req.userId) = StoredMembers(last.req.userId))
           => Members(last.prev[1].restrictions) = Members(last.restrictions)

\* C13 witness: a request and a profile reordered with respect to the call
\* before, a restriction named by both the request and the profile, and the
\* two aggregated lists differ as lists
C13_Witness ==
    /\ TwoPrepared
    /\ last.req.userId = "u2" /\ last.prev[1].req.userId = "u1"
    /\ last.req.dietaryRestrictions = <<"gluten", "vegan">>
    /\ last.prev[1].req.dietaryRestrictions = <<"vegan", "gluten">>
    /\ last.restrictions # last.prev[1].restrictions
    /\ Members(last.restrictions) = {"gluten", "vegan", "nuts", "dairy", "low_sodium"}

(* ------------------------------- C14 ----------------------------------- *)
\* C14: a request with a userId that has no stored profile is not an error,
\* is fingerprinted with the request's restriction set unchanged, and gets
\* the cache key that the same request without a userId got
C14_UnknownUserSameFingerprint ==
    (/\ TwoPrepared
     /\ last.req.userId # NoUser /\ last.req.userId \notin DOMAIN DietaryProfiles
     /\ last.prev[1].req = [last.req EXCEPT !.userId = NoUser])
    => /\ Members(last.restrictions) = Members(last.req.dietaryRestrictions)
       /\ last.cacheKey = last.prev[1].cacheKey

(* ------------------------------- C15 ----------------------------------- *)
\* out is a multiple of step and no multiple of step is nearer to p / q
\* (all in thousandths)
IsNearest(out, p, q, step) == out % step = 0 /\ 2 * Abs(out * q - p) <= step * q

\* the rounding step, in thousandths, of a unit for an amount p / q
UnitStep(unit, p, q) ==
    CASE unit \in {"tsp", "pinch"} -> 250
      [] unit \in {"tbsp", "TBSP"} -> 500
      [] unit \in {"cup", "Cup", "l"} -> 250
      [] unit = "g" -> IF p < 10000 * q THEN 100 ELSE 1000
      [] unit = "kg" -> 10
      [] unit = "oz" -> 100
      [] unit = "lb" -> 10
      [] unit \in {"piece", ""} -> 1000
      [] OTHER -> 100

\* a call of ScalingUtils.scaleIngredients with positive serving sizes
UtilsScaled ==
    /\ last.op = "scaleIngredients" /\ last.fn = "ScalingUtils"
    /\ last.originalServings > 0 /\ last.newServings > 0

\* C15: each amount returned is amount * newServings / originalServings
\* rounded to the nearest thousandth when that is below 0.1, and otherwise to
\* the nearest step of its unit class (quarter, half, integer, 1 or 2
\* decimals)
C15_RoundedByUnitClass ==
    UtilsScaled =>
        \A i \in DOMAIN last.before :
            LET p == last.before[i].amount[2] * last.newServings
                q == last.originalServings
                out == last.result[i].amount
            IN /\ out[1] = "finite"
               /\ IsNearest(out[2], p, q,
                            IF p < 100 * q THEN 1 ELSE UnitStep(last.before[i].unit, p, q))

\* C15 witness: 2 cup scaled from 4 to 8 servings gave 4 cup
C15_Witness ==
    /\ UtilsScaled
    /\ last.originalServings = 4 /\ last.newServings = 8
    /\ last.before = << [name |-> "item", amount |-> Finite(2000), unit |-> "cup",
                         notes |-> "none"] >>
    /\ last.result[1].amount = Finite(4000)

(* ------------------------------- C16 ----------------------------------- *)
\* C16: scaling from a serving size to the same serving size returns every
\* amount within the rounding step of its unit class
C16_SameServingsIsIdentity ==
    (UtilsScaled /\ last.originalServings = last.newServings) =>
        \A i \in DOMAIN last.before :
            LET in == last.before[i].amount[2]
                out == last.result[i].amount
            IN /\ out[1] = "finite"
               /\ Abs(out[2] - in) <= UnitStep(last.before[i].unit, in, 1)

\* C16 witness: 0.333 l scaled from 3 to 3 servings came back as 0.25 l
C16_Witness ==
    /\ UtilsScaled
    /\ last.originalServings = 3 /\ last.newServings = 3
    /\ Len(last.before) = 1 /\ last.before[1].unit = "l"
    /\ last.before[1].amount = Finite(333)
    /\ last.result[1].amount = Finite(250)

(* ------------------------------- C17 ----------------------------------- *)
\* C17: both ingredient scalers return a list of the same length and order
\* whose ingredients keep name, unit and notes (only amount may differ), and
\* leave the list they were given as it was
C17_ScalingFrame ==
    last.op = "scaleIngredients" =>
        /\ Len(last.result) = Len(last.before)
        /\ \A i \in DOMAIN last.before :
              /\ DOMAIN last.result[i] = DOMAIN last.before[i]
              /\ \A field \in DOMAIN last.before[i] \ {"amount"} :
                    last.result[i][field] = last.before[i][field]
        /\ last.after = last.before

\* C17 witness: a three-ingredient list with notes was halved: the amounts
\* changed, the argument did not
C17_Witness ==
    /\ last.op = "scaleIngredients"
    /\ Len(last.before) = 3 /\ last.before[1].notes = "sifted"
    /\ last.originalServings = 4 /\ last.newServings = 2
    /\ \A i \in DOMAIN last.before : last.result[i].amount # last.before[i].amount
    /\ last.after = last.before

(* ------------------------------- C18 ----------------------------------- *)
\* C18: a scaling of a stored recipe whose own or whose new serving size is
\* zero or negative returns no recipe: it is refused with a validation error
C18_NonPositiveServingsRefused ==
    (/\ last.op \in {"scaleRecipe", "postScale"}
     /\ last.recipeId \in DOMAIN StoredRecipes
     /\ last.code # "FETCH_FAILED"
     /\ \/ last.newServingSize <= 0
        \/ StoredRecipes[last.recipeId].servingSize <= 0)
    => (last.recipe = <<>> /\ last.statusCode = 400)

(* ------------------------------- C19 ----------------------------------- *)
Macros == {"protein", "carbohydrates", "fat", "fiber", "sugar", "sodium"}

\* a call of either scaleNutrition with positive serving sizes
NutritionScaled ==
    /\ last.op = "scaleNutrition"
    /\ last.originalServings > 0 /\ last.newServings > 0

\* C19: every nutrient is multiplied by newServings / originalServings;
\* calories are rounded to the nearest integer, the other macros to 2
\* decimals, every vitamin and mineral entry to 1 decimal with the keys
\* kept, and servingSize becomes newServings
C19_NutrientPrecision ==
    NutritionScaled =>
        LET a == last.originalServings
            b == last.newServings
            Rounded(out, in, step) ==
                out[1] = "finite" /\ IsNearest(out[2], in[2] * b, a, step)
        IN /\ Rounded(last.result.calories, last.nutrition.calories, 1000)
           /\ \A m \in Macros : Rounded(last.result[m], last.nutrition[m], 10)
           /\ \A map \in {"vitamins", "minerals"} :
                 /\ DOMAIN last.result[map] = DOMAIN last.nutrition[map]
                 /\ \A key \in DOMAIN last.nutrition[map] :
                       Rounded(last.result[map][key], last.nutrition[map][key], 100)
           /\ last.result.servingSize = b

(* ------------------------------- C20 ----------------------------------- *)
\* a nutrition scaled from a to b servings and back, both sizes positive
RoundTrip ==
    /\ last.op = "scaleNutritionBack"
    /\ last.originalServings > 0 /\ last.newServings > 0

\* every field of the round trip's result is within Bound(step) of the
\* original, step being the rounding step of the field in thousandths
RoundTripWithin(calorieStep, macroStep, entryStep, Bound(_, _)) ==
    /\ Bound(last.result.calories[2] - last.nutrition.calories[2], calorieStep)
    /\ \A m \in Macros : Bound(last.result[m][2] - last.nutrition[m][2], macroStep)
    /\ \A map \in {"vitamins", "minerals"} :
          \A key \in DOMAIN last.nutrition[map] :
              Bound(last.result[map][key][2] - last.nutrition[map][key][2], entryStep)

\* C20 as stated: scaling from a to b servings and back reproduces every
\* value within the rounding tolerance of its field: 1 for calories, 2
\* decimals for the other macros, 1 decimal for vitamin and mineral entries
C20_RoundTripWithinTolerance ==
    RoundTrip =>
        LET WithinStep(diff, step) == Abs(diff) <= step
        IN RoundTripWithin(1000, 10, 100, WithinStep)

\* the step a function rounds macros and map entries to: 1 decimal in
\* ScalingUtils, 2 decimals in NutritionModel
StepOf(fn) == IF fn = "ScalingUtils" THEN 100 ELSE 10

\* C20 amended: scaling from a to b servings and back reproduces every value
\* within (1 + a/b) / 2 rounding steps of its field, so within one step when
\* b >= a; the step is 1 for calories and the precision the function rounds
\* to for the other fields
C20_RoundTripWithinScaledTolerance ==
    RoundTrip =>
        LET a == last.originalServings
            b == last.newServings
            WithinScaled(diff, step) == 2 * b * Abs(diff) <= step * (a + b)
        IN RoundTripWithin(1000, StepOf(last.fn), StepOf(last.fn), WithinScaled)

\* C20 witness: 350 calories scaled from 4 servings to 1 and back are 352
C20_Witness ==
    /\ RoundTrip
    /\ last.originalServings = 4 /\ last.newServings = 1
    /\ last.nutrition.calories = Finite(350000)
    /\ last.result.calories = Finite(352000)

(* ------------------------- C21: cooking time --------------------------- *)
\* the servings of a call as a positive quotient B / A
QuotientOf(call) ==
    [A |-> Abs(call.originalServings),
     B |-> call.newServings * Sign(call.originalServings)]

\* C21: for a non-zero original serving size, scaleCookingTime returns the
\* whole number of minutes nearest to time * (0.7 + 0.3 * sf) when sf <= 1 and
\* nearest to time * (1 + 0.3 * ln sf) when sf > 1 (ln known to 1/100000);
\* 30 minutes scaled from 4 to 2 servings give 26; scaling from S to S gives
\* the original time
C21_CookingTimeFormula ==
    (last.op = "scaleCookingTime" /\ last.originalServings # 0) =>
        LET q == QuotientOf(last)
            minutes == last.originalTime[2] \div 1000
            n == last.result[2] \div 1000
        IN /\ last.result[1] = "finite" /\ last.result[2] % 1000 = 0
           /\ q.B <= q.A =>
                2 * Abs(n * 10 * q.A - minutes * (7 * q.A + 3 * q.B)) <= 10 * q.A
           /\ q.B > q.A =>
                2 * Abs(n * 1000000
                        - minutes * (1000000 + 3 * (LnTable[q.B] - LnTable[q.A])))
                    <= 1000000 + 6 * minutes
           /\ (minutes = 30 /\ last.originalServings = 4 /\ last.newServings = 2) => n = 26
           /\ last.originalServings = last.newServings => last.result = last.originalTime

\* C21 witness: the 30-minute recipe scaled from 4 to 2 servings has been
\* estimated at 26 minutes
C21_Witness ==
    /\ last.op = "scaleCookingTime"
    /\ last.originalTime = Finite(30000)
    /\ last.originalServings = 4 /\ last.newServings = 2
    /\ last.result = Finite(26000)

(* -------------------------- C22: difficulty ---------------------------- *)
\* C22: scaleDifficulty returns the original difficulty unless the scale factor
\* is below 0.5 or above 3 (both strict), and then min(5, original + 1); the
\* result of a difficulty in 1 .. 5 is in 1 .. 5
C22_DifficultyThresholds ==
    (last.op = "scaleDifficulty" /\ last.originalServings # 0) =>
        LET q == QuotientOf(last)
            d == last.originalDifficulty
        IN /\ (2 * q.B < q.A \/ q.B > 3 * q.A) =>
                last.result = IF d = 5 THEN 5 ELSE d + 1
           /\ (2 * q.B >= q.A /\ q.B <= 3 * q.A) => last.result = d
           /\ last.result \in 1 .. 5

\* C22 witness: the hardest level has stayed 5 at four times the servings
C22_Witness ==
    /\ last.op = "scaleDifficulty"
    /\ last.originalDifficulty = 5
    /\ last.originalServings = 1 /\ last.newServings = MaxServings
    /\ last.result = 5

(* ------------------------- C23, C24: convertUnit ----------------------- *)
\* the pairs of lower-case units that the conversions table holds
InTable(fromLower, toLower) ==
    \/ {fromLower, toLower} \subseteq {"ml", "l", "cup", "tbsp", "tsp"}
    \/ {fromLower, toLower} \subseteq {"g", "kg", "oz", "lb"}

\* C23: convertUnit returns amount * factor[from][to] for the pairs of the
\* table, units compared in lower case, and the amount unchanged for every
\* other pair (units of different dimensions, unknown units)
C23_ConvertOrPassThrough ==
    last.op = "convertUnit" =>
        LET fromLower == toLowerCase(last.fromUnit)
            toLower == toLowerCase(last.toUnit)
        IN IF InTable(fromLower, toLower)
           THEN /\ last.result.tag = "finite"
                /\ last.result.p = last.amount[2] * conversions[fromLower][toLower][1]
                /\ last.result.q = conversions[fromLower][toLower][2]
           ELSE last.result = [tag |-> "finite", p |-> last.amount[2], q |-> 1]

\* C24: convertUnit(3, "tsp", "tbsp") returns 1
C24_ThreeTeaspoonsAreOneTablespoon ==
    (/\ last.op = "convertUnit"
     /\ last.amount = Finite(3000) /\ last.fromUnit = "tsp" /\ last.toUnit = "tbsp") =>
        /\ last.result.tag = "finite"
        /\ last.result.p = 1000 * last.result.q

(* --------------------- C25, C30: suggestBetterUnit --------------------- *)
\* the dimension a unit measures
Dimension(unit) ==
    IF unit \in {"ml", "l", "tsp", "tbsp", "cup"} THEN "volume"
    ELSE IF unit \in {"g", "kg", "oz", "lb"} THEN "weight"
    ELSE "none"

\* the unit that the rules of the claim give an amount p / q (in units), or
\* "" where no rule applies
RuleTarget(unit, p, q) ==
    IF unit = "ml" /\ p >= 1000 * q THEN "l"
    ELSE IF unit = "l" /\ p < q THEN "ml"
    ELSE IF unit = "tsp" /\ p >= 3 * q THEN "tbsp"
    ELSE IF unit = "tbsp" /\ p >= 16 * q THEN "cup"
    ELSE IF unit = "tbsp" /\ p < q THEN "tsp"
    ELSE IF unit = "cup" /\ 4 * p < q THEN "tbsp"
    ELSE IF unit = "g" /\ p >= 1000 * q THEN "kg"
    ELSE IF unit = "kg" /\ p < q THEN "g"
    ELSE IF unit = "oz" /\ p >= 16 * q THEN "lb"
    ELSE IF unit = "lb" /\ p < q THEN "oz"
    ELSE ""

\* C25: suggestBetterUnit moves an amount to the unit of the threshold rule
\* that matches its lower-cased unit, within the same dimension, and where
\* no rule matches returns the amount and the unit string as given
C25_SuggestionRules ==
    last.op = "suggestBetterUnit" =>
        LET target == RuleTarget(toLowerCase(last.currentUnit),
                                 last.amount.p, 1000 * last.amount.q)
        IN IF target = ""
           THEN last.result = [amount |-> last.amount, unit |-> last.currentUnit]
           ELSE /\ last.result.unit = target
                /\ Dimension(last.result.unit) = Dimension(toLowerCase(last.currentUnit))

\* C25 witness: one "Cup", which no rule matches, has come back as written
C25_Witness ==
    /\ last.op = "suggestBetterUnit"
    /\ last.currentUnit = "Cup" /\ last.amount.p = 1000 * last.amount.q
    /\ last.result.unit = "Cup"

\* C30: the third application of suggestBetterUnit to its own results yields
\* a value that a further application returns unchanged
C30_SuggestionsSettle ==
    (last.op = "suggestBetterUnit" /\ last.applications > 3) =>
        last.result = [amount |-> last.amount, unit |-> last.currentUnit]

\* C30 witness: an amount has changed unit twice (cups to tablespoons to
\* teaspoons) and the next two applications have left it alone
C30_Witness ==
    /\ last.op = "suggestBetterUnit" /\ last.applications = 4
    /\ last.currentUnit = "tsp" /\ last.result.unit = "tsp"
    /\ last.amount.p = 50 * 16 * 3

(* ------------------------ C26, C27: scaleRecipe ------------------------ *)
\* a scaleRecipe call that returned a recipe, both serving sizes positive
RecipeScaled ==
    /\ last.op \in {"scaleRecipe", "postScale"}
    /\ last.statusCode = 200
    /\ last.newServingSize > 0
    /\ StoredRecipes[last.recipeId].servingSize > 0

\* C26: the recipe that scaleRecipe returns has the ingredient amounts of
\* ScalingUtils.scaleIngredients, the nutrition of ScalingUtils.scaleNutrition
\* and the cookingTime and difficulty of the estimators, all for the factor
\* newServingSize / recipe.servingSize
C26_ScaleRecipeUsesScalers ==
    RecipeScaled =>
        LET stored == StoredRecipes[last.recipeId]
            S == stored.servingSize
            N == last.newServingSize
            returned == last.recipe[1]
        IN /\ returned.ingredients
                = ScalingUtils_scaleIngredients(stored.ingredients, S, N).result
           /\ returned.nutritionalInfo
                = << ScalingUtils_scaleNutrition(stored.nutrition[1], S, N) >>
           /\ returned.cookingTime = scaleCookingTime(stored.cookingTime, S, N)
           /\ returned.difficulty = scaleDifficulty(stored.difficulty, S, N)

\* the fields of a stored recipe that the claim names
StoredFields(row) ==
    <<row.ingredients, row.servingSize, row.cookingTime, row.difficulty, row.nutrition>>

\* C27: after any sequence of scaleRecipe calls every stored recipe has the
\* ingredients, servingSize, cookingTime, difficulty and nutrition it had
\* before, and the cache table is what it was
C27_ScalingLeavesStoreAlone ==
    /\ DOMAIN recipes = DOMAIN StoredRecipes
    /\ \A id \in DOMAIN recipes : StoredFields(recipes[id]) = StoredFields(StoredRecipes[id])
    /\ recipe_cache = base

\* C27 witness: a recipe has been scaled as often as the model allows, the
\* last time to other amounts than the stored ones, with entries in the cache
C27_Witness ==
    /\ last.op = "scaleRecipe" /\ last.statusCode = 200
    /\ recipes[last.recipeId].popularity = MaxPopularity
    /\ last.recipe[1].ingredients # recipes[last.recipeId].ingredients
    /\ last.recipe[1].servingSize # recipes[last.recipeId].servingSize
    /\ Len(recipe_cache) = 2

(* ---------------------------- C28: lazy TTL ---------------------------- *)
\* the row of a fingerprint that a table holds
RowOf(table, queryHash) == table[CHOOSE i \in RowsFor(table, queryHash) : TRUE]

\* a lookup of queryHash has just refreshed an entry that had never been read
\* since it was saved, longer ago than the time to live
RefreshedWhenExpired(queryHash) ==
    /\ last.op = "get" /\ last.queryHash = queryHash /\ last.value # Null
    /\ RowsFor(recipe_cache, queryHash) # {}
    /\ RowOf(recipe_cache, queryHash).hit_count = 2
    /\ InstantOf(RowOf(recipe_cache, queryHash).created_at) < now - config.cacheTtlHours

\* C28: a lookup of an entry that is expired but not yet swept is a hit that
\* returns the payload and sets lastAccessed to now, and the TTL step of a
\* sweep that follows the lookup does not delete the entry
C28_LazyExpiry ==
    [][ /\ \A f \in Hashes(recipe_cache) :
              (/\ last'.op = "get" /\ last'.queryHash = f
               /\ IsExpired(RowOf(recipe_cache, f), now, config))
              => /\ last'.value = <<JSONParse(RowOf(recipe_cache, f).recipe_data)>>
                 /\ RowsFor(recipe_cache', f) # {}
                 /\ InstantOf(RowOf(recipe_cache', f).last_accessed) = now
        /\ \A f \in Hashes(recipe_cache) :
              (RefreshedWhenExpired(f) /\ last'.op = "cleanupCache")
              => f \in Hashes(last'.afterTtl) ]_vars

(* ------------------------ C29: TTL step is exact ----------------------- *)
\* C29: the TTL step of a sweep deletes no entry whose lastAccessed is at or
\* after now - cacheTtlHours, and a sweep removes such an entry only when the
\* store is over capacity after the TTL step
C29_TtlStepDeletesOnlyExpired ==
    last.op = "cleanupCache" =>
        \A i \in DOMAIN last.before :
            ~IsExpired(last.before[i], now, config)
                => /\ last.before[i] \in Rows(last.afterTtl)
                   /\ \/ last.before[i] \in Rows(recipe_cache)
                      \/ Len(last.afterTtl) > config.cacheMaxEntries

====
